---------------------------- MODULE Spec2Model ----------------------------
(***************************************************************************)
(* A model of the uniffi component-interface builder: the                  *)
(* ComponentInterface (uniffi_bindgen/src/interface/mod.rs), its           *)
(* declarations, the checksum / FFI namespace, FFI derivation, the         *)
(* consistency check, and the three build paths that drive them: the UDL   *)
(* two-pass build, parse_iface (uniffi_bindgen/src/lib.rs) and add_to_ci   *)
(* (uniffi_bindgen/src/macro_metadata/ci.rs).                              *)
(*                                                                         *)
(* Strings are sequences of one-character strings, so that format!() is    *)
(* concatenation and two symbols are equal exactly when their characters   *)
(* are.  Option<T> is a sequence of length at most one: <<>> is None and   *)
(* <<x>> is Some(x).                                                       *)
(***************************************************************************)
EXTENDS Integers, Sequences, FiniteSets, TLC

VARIABLES
    iface,      \* the ComponentInterface under construction / held by the caller
    pc,         \* position of the running build path
    held,       \* TRUE when the caller holds `iface` (it was returned, or is borrowed &mut)
    error,      \* Option<anyhow::Error>: the error (or panic) that ended the build
    doc,        \* the UDL definitions of the document being built
    next_defn,  \* index of the next definition of `doc` for the detail pass
    dir,        \* parse_iface: directory entries not yet read
    snapshot,   \* the interface the caller held when the running add_to_ci began
    n_inputs,   \* definitions, files and metadata items given to this interface so far
    it          \* Option<RecursiveTypeIterator>: the enumeration a caller is running

vars == <<iface, pc, held, error, doc, next_defn, dir, snapshot, n_inputs, it>>

-----------------------------------------------------------------------------
(* Bounds of the model. *)

\* Most inputs (UDL definitions, metadata files, metadata items) one interface is built from.
MaxInputs == 3

-----------------------------------------------------------------------------
(* Strings. *)

None == <<>>
Some(x) == <<x>>
IsSome(o) == Len(o) = 1
Unwrap(o) == o[1]

LowerCase == <<"a","b","c","d","e","f","g","h","i","j","k","l","m",
               "n","o","p","q","r","s","t","u","v","w","x","y","z">>
UpperCase == <<"A","B","C","D","E","F","G","H","I","J","K","L","M",
               "N","O","P","Q","R","S","T","U","V","W","X","Y","Z">>
Digits == <<"0","1","2","3","4","5","6","7","8","9">>
HexDigits == <<"0","1","2","3","4","5","6","7","8","9","a","b","c","d","e","f">>

Range(s) == {s[i] : i \in DOMAIN s}

\* The byte of a character (ASCII), as String::hash feeds it to the hasher.
Ascii ==
    [c \in Range(LowerCase) \cup Range(UpperCase) \cup Range(Digits) \cup {"_", ".", ":", "$"} |->
        IF c \in Range(LowerCase) THEN 96 + (CHOOSE i \in DOMAIN LowerCase : LowerCase[i] = c)
        ELSE IF c \in Range(UpperCase) THEN 64 + (CHOOSE i \in DOMAIN UpperCase : UpperCase[i] = c)
        ELSE IF c \in Range(Digits) THEN 47 + (CHOOSE i \in DOMAIN Digits : Digits[i] = c)
        ELSE IF c = "_" THEN 95
        ELSE IF c = "." THEN 46
        ELSE IF c = ":" THEN 58
        ELSE 36]

\* s starts with p (str::starts_with).
StartsWith(s, p) == Len(p) <= Len(s) /\ SubSeq(s, 1, Len(p)) = p

RECURSIVE FlattenSeq(_)
FlattenSeq(ss) == IF ss = <<>> THEN <<>> ELSE Head(ss) \o FlattenSeq(Tail(ss))

\* format!("{:x}", n): lower-case hexadecimal, no padding, "0" for zero.
RECURSIVE ToHex(_)
ToHex(n) == IF n < 16 THEN <<HexDigits[n + 1]>>
            ELSE ToHex(n \div 16) \o <<HexDigits[(n % 16) + 1]>>


-----------------------------------------------------------------------------
(* Types, FFI types and declarations. *)

\* Type: a record with a tag; named user types carry `name`, composites
\* carry `inner` (and `key` for Map).
T_String == [tag |-> "String"]
T_Int32 == [tag |-> "Int32"]
T_Record(nm) == [tag |-> "Record", name |-> nm]
T_Enum(nm) == [tag |-> "Enum", name |-> nm]
T_Error(nm) == [tag |-> "Error", name |-> nm]
T_Object(nm) == [tag |-> "Object", name |-> nm]
T_CallbackInterface(nm) == [tag |-> "CallbackInterface", name |-> nm]
T_External(nm, crate_name) == [tag |-> "External", name |-> nm, crate_name |-> crate_name]
T_Custom(nm, builtin) == [tag |-> "Custom", name |-> nm, builtin |-> builtin]

\* The variants of Type in the order the data model lists them; the position
\* is the discriminant that #[derive(Hash)] feeds to the hasher.  The byte
\* sequence of the data model is the last entry.
TypeTags == <<"UInt8", "Int8", "UInt16", "Int16", "UInt32", "Int32", "UInt64", "Int64",
              "Float32", "Float64", "Boolean", "String", "Object", "Record", "Enum",
              "Error", "CallbackInterface", "Optional", "Sequence", "Map",
              "External", "Custom", "Bytes">>
NamedTags == {"Record", "Enum", "Error", "Object", "CallbackInterface"}

TypeDiscriminant(t) == (CHOOSE i \in DOMAIN TypeTags : TypeTags[i] = t.tag) - 1

\* A Type -> low-level type mapping that passes objects in the byte buffer.
FFITypeOf_object_as_buffer(t) ==
    CASE t.tag \in {"UInt8", "Int8", "UInt16", "Int16", "UInt32", "Int32", "UInt64", "Int64",
                    "Float32", "Float64"} -> t.tag
      [] t.tag = "Boolean" -> "Int8"
      [] t.tag = "CallbackInterface" -> "ForeignCallback"
      [] OTHER -> "RustBuffer"

\* FFIType::from(&Type): the Type -> low-level type mapping.
FFITypeOf(t) ==
    CASE t.tag \in {"UInt8", "Int8", "UInt16", "Int16", "UInt32", "Int32", "UInt64", "Int64",
                    "Float32", "Float64"} -> t.tag
      [] t.tag = "Boolean" -> "Int8"
      [] t.tag = "Object" -> "RustArcPtr"
      [] t.tag = "CallbackInterface" -> "ForeignCallback"
      [] OTHER -> "RustBuffer"

\* FFIFunction::default(): empty name, no arguments, no return type.
DefaultFFIFunction == [name |-> <<>>, arguments |-> <<>>, return_type |-> None]

\* impl From<&Argument> for FFIArgument
FFIArgumentOf(a) == [name |-> a.name, type_ |-> FFITypeOf(a.type_)]

MapSeq(s, Op(_)) == [i \in DOMAIN s |-> Op(s[i])]

\* MethodAttributes::get_self_by_arc
get_self_by_arc(attributes) ==
    \E i \in DOMAIN attributes :
        attributes[i].tag = "SelfType" /\ attributes[i].value = "ByArc"

\* A full_arguments that puts the receiver after the declared arguments.
Method_full_arguments_receiver_last(m) ==
    m.arguments \o
    <<[name |-> <<"p","t","r">>, type_ |-> T_Object(m.object_name),
       by_ref |-> ~get_self_by_arc(m.attributes), optional |-> FALSE, default |-> None]>>

\* Method::arguments: the declared arguments.
Method_arguments(m) == m.arguments

\* Method::full_arguments: the implicit receiver, then the declared arguments.
Method_full_arguments(m) ==
    <<[name |-> <<"p","t","r">>, type_ |-> T_Object(m.object_name),
       by_ref |-> ~get_self_by_arc(m.attributes), optional |-> FALSE, default |-> None]>>
    \o m.arguments

-----------------------------------------------------------------------------
(* The checksum: what each Hash impl feeds to the hasher, as a sequence of   *)
(* integers, and the hasher itself.                                          *)

\* impl Hash for str: the bytes, then 0xff.
HashStr(s) == [i \in DOMAIN s |-> Ascii[s[i]]] \o <<255>>

\* impl Hash for Vec<T>: the length, then each element.
HashVec(v, Op(_)) == <<Len(v)>> \o FlattenSeq(MapSeq(v, Op))

\* impl Hash for Option<T>: the discriminant, then the value.
HashOption(o, Op(_)) == IF IsSome(o) THEN <<1>> \o Op(Unwrap(o)) ELSE <<0>>

HashBool(b) == IF b THEN <<1>> ELSE <<0>>

\* #[derive(Hash)] for Type: discriminant, then the payload.
RECURSIVE HashType(_)
HashType(t) ==
    <<TypeDiscriminant(t)>> \o
    (CASE t.tag \in NamedTags -> HashStr(t.name)
       [] t.tag \in {"Optional", "Sequence"} -> HashType(t.inner)
       [] t.tag = "Map" -> HashType(t.key) \o HashType(t.inner)
       [] t.tag = "External" -> HashStr(t.name) \o HashStr(t.crate_name)
       [] t.tag = "Custom" -> HashStr(t.name) \o HashType(t.builtin)
       [] OTHER -> <<>>)

\* #[derive(Hash)] for Literal (only the payload-free and boolean literals occur).
HashLiteral(l) ==
    CASE l.tag = "Boolean" -> <<0>> \o HashBool(l.value)
      [] l.tag = "EmptySequence" -> <<6>>
      [] l.tag = "EmptyMap" -> <<7>>
      [] OTHER -> <<8>>

\* #[derive(Hash)] for Attribute.
AttributeTags == <<"ByRef", "Enum", "Error", "Name", "SelfType", "Threadsafe",
                   "Throws", "External", "Custom">>
HashAttribute(a) ==
    <<(CHOOSE i \in DOMAIN AttributeTags : AttributeTags[i] = a.tag) - 1>> \o
    (CASE a.tag \in {"Name", "Throws", "External"} -> HashStr(a.value)
       [] a.tag = "SelfType" -> <<0>>
       [] OTHER -> <<>>)
HashAttributes(attrs) == HashVec(attrs, HashAttribute)

\* #[derive(Hash)] for Argument
HashArgument(a) ==
    HashStr(a.name) \o HashType(a.type_) \o HashBool(a.by_ref) \o HashBool(a.optional)
    \o HashOption(a.default, HashLiteral)

\* #[derive(Hash)] for Field
HashField(f) ==
    HashStr(f.name) \o HashType(f.type_) \o HashBool(f.required)
    \o HashOption(f.default, HashLiteral)

\* #[derive(Hash)] for Variant and Enum
HashVariant(v) == HashStr(v.name) \o HashVec(v.fields, HashField)
HashEnum(e) == HashStr(e.name) \o HashVec(e.variants, HashVariant) \o HashBool(e.flat)

\* #[derive(Hash)] for Record
HashRecord(r) == HashStr(r.name) \o HashVec(r.fields, HashField)

\* Error { name, enum_ }
HashError(e) == HashStr(e.name) \o HashEnum(e.enum_)

\* A buggy Hash for Function that also feeds the derived FFI symbol.
HashFunctionWithFfi(f) ==
    HashStr(f.name) \o HashVec(f.arguments, HashArgument)
    \o HashOption(f.return_type, HashType) \o HashAttributes(f.attributes)
    \o HashStr(f.ffi_func.name)

\* impl Hash for Function: name, arguments, return_type, attributes; not ffi_func.
HashFunction(f) ==
    HashStr(f.name) \o HashVec(f.arguments, HashArgument)
    \o HashOption(f.return_type, HashType) \o HashAttributes(f.attributes)

\* impl Hash for Constructor: name, arguments, attributes.
HashConstructor(c) ==
    HashStr(c.name) \o HashVec(c.arguments, HashArgument) \o HashAttributes(c.attributes)

\* impl Hash for Method: name, object_name, arguments, return_type, attributes.
HashMethod(m) ==
    HashStr(m.name) \o HashStr(m.object_name) \o HashVec(m.arguments, HashArgument)
    \o HashOption(m.return_type, HashType) \o HashAttributes(m.attributes)

\* impl Hash for Object: name, constructors, methods.
HashObject(o) ==
    HashStr(o.name) \o HashVec(o.constructors, HashConstructor)
    \o HashVec(o.methods, HashMethod)

\* impl Hash for CallbackInterface: name, methods.
HashCallbackInterface(c) == HashStr(c.name) \o HashVec(c.methods, HashMethod)

\* impl Hash for ComponentInterface: everything but `types`.
HashComponentInterface(ci) ==
    HashStr(ci.uniffi_version) \o HashStr(ci.namespace)
    \o HashVec(ci.enums, HashEnum) \o HashVec(ci.records, HashRecord)
    \o HashVec(ci.functions, HashFunction) \o HashVec(ci.objects, HashObject)
    \o HashVec(ci.callback_interfaces, HashCallbackInterface)
    \o HashVec(ci.errors, HashError)

\* The hasher.  A u64 is four 16-bit limbs, least significant first.
\* DefaultHasher's mixing is replaced by a multiply-and-add per limb: what
\* the model keeps of it is that the result is a function of the bytes fed.
LimbModulus == 65536
HasherNew == <<7, 11, 13, 17>>
HasherWrite(h, x) ==
    <<(h[1] * 31 + x + 1) % LimbModulus, (h[2] * 33 + x + 2) % LimbModulus,
      (h[3] * 35 + x + 3) % LimbModulus, (h[4] * 37 + x + 4) % LimbModulus>>

\* Hasher::write on each of bytes[lo..hi], in order.  The range is halved and
\* the state h looked at first, which keeps the evaluation shallow.
RECURSIVE HasherFeedRange(_, _, _, _)
HasherFeedRange(h, bytes, lo, hi) ==
    IF Len(h) # 4 \/ lo > hi THEN h
    ELSE IF lo = hi THEN HasherWrite(h, bytes[lo])
    ELSE HasherFeedRange(HasherFeedRange(h, bytes, lo, (lo + hi) \div 2),
                         bytes, ((lo + hi) \div 2) + 1, hi)

HasherFeed(h, bytes) == HasherFeedRange(h, bytes, 1, Len(bytes))

\* ComponentInterface::checksum
checksum(ci) == HasherFeed(HasherNew, HashComponentInterface(ci))

\* (checksum & 0x000000000000FFFF) as u16
Low16(h) == h[1]

\* ComponentInterface::ffi_namespace: format!("{}_{:x}", namespace, low 16 bits)
ffi_namespace(ci) == ci.namespace \o <<"_">> \o ToHex(Low16(checksum(ci)))

-----------------------------------------------------------------------------
(* String literals of the source. *)

S_new == <<"n","e","w">>
S_ptr == <<"p","t","r">>
S_ffi == <<"f","f","i">>
S_object_free == <<"o","b","j","e","c","t","_","f","r","e","e">>
S_init_callback == <<"i","n","i","t","_","c","a","l","l","b","a","c","k">>
S_callback_stub == <<"c","a","l","l","b","a","c","k","_","s","t","u","b">>
S_rustbuffer_alloc == <<"r","u","s","t","b","u","f","f","e","r","_","a","l","l","o","c">>
S_rustbuffer_from_bytes ==
    <<"r","u","s","t","b","u","f","f","e","r","_","f","r","o","m","_","b","y","t","e","s">>
S_rustbuffer_free == <<"r","u","s","t","b","u","f","f","e","r","_","f","r","e","e">>
S_rustbuffer_reserve ==
    <<"r","u","s","t","b","u","f","f","e","r","_","r","e","s","e","r","v","e">>
S_uniffi_placeholder == <<"_","_","u","n","i","f","f","i","_">>
S_mod == <<"m","o","d">>
S_fn == <<"f","n">>
S_impl == <<"i","m","p","l">>
S_type == <<"t","y","p","e">>
S_json == <<"j","s","o","n">>
S_String == <<"S","t","r","i","n","g">>
S_i32 == <<"i","3","2">>

\* format!("{}_{}", a, b)
Under(a, b) == a \o <<"_">> \o b

-----------------------------------------------------------------------------
(* Results and errors.  An anyhow error is its message and the name the      *)
(* message quotes (<<>> when it quotes none).                                *)

Ok(ci) == [ok |-> TRUE, ci |-> ci, err |-> None]
Err(ci, msg, nm) == [ok |-> FALSE, ci |-> ci, err |-> Some([msg |-> msg, name |-> nm])]

-----------------------------------------------------------------------------
(* The type universe. *)

\* TypeUniverse::get_type_definition: the Type bound to `nm`, or None.
get_type_definition(types, nm) ==
    IF \E d \in types.type_definitions : d.name = nm
    THEN Some((CHOOSE d \in types.type_definitions : d.name = nm).type_)
    ELSE None

\* TypeUniverse::add_known_type: records the type as seen; always succeeds.
add_known_type(types, t) ==
    [types EXCEPT !.all_known_types = @ \cup {t}]

\* TypeUniverse::iter_known_types: every type seen so far.
iter_known_types(types) == types.all_known_types

\* A contains_optional_types that looks at the types bound to a name only.
contains_optional_types_bound(ci) ==
    \E d \in ci.types.type_definitions : d.type_.tag = "Optional"

\* ComponentInterface::contains_optional_types / contains_sequence_types /
\* contains_map_types
contains_optional_types(ci) == \E t \in iter_known_types(ci.types) : t.tag = "Optional"
contains_sequence_types(ci) == \E t \in iter_known_types(ci.types) : t.tag = "Sequence"
contains_map_types(ci) == \E t \in iter_known_types(ci.types) : t.tag = "Map"

\* ComponentInterface::get_type
get_type(ci, nm) == get_type_definition(ci.types, nm)

\* add_type_definition that rebinds: the last definition of a name wins.
add_type_definition_rebind(types, nm, t) ==
    [ok |-> TRUE,
     types |-> add_known_type(
         [types EXCEPT !.type_definitions =
             {d \in @ : d.name # nm} \cup {[name |-> nm, type_ |-> t]}], t),
     err |-> None]

\* TypeUniverse::add_type_definition: fails when `nm` is bound to a different
\* Type, changes no binding when it is bound to the same Type, binds it otherwise;
\* the type becomes a known type.
add_type_definition(types, nm, t) ==
    LET bound == get_type_definition(types, nm) IN
    IF IsSome(bound) /\ Unwrap(bound) # t
    THEN [ok |-> FALSE, types |-> types,
          err |-> Some([msg |-> "Conflicting type definition", name |-> nm])]
    ELSE [ok |-> TRUE,
          types |-> add_known_type(
              [types EXCEPT !.type_definitions = @ \cup {[name |-> nm, type_ |-> t]}], t),
          err |-> None]

-----------------------------------------------------------------------------
(* ComponentInterface. *)

\* The crate version that tags every interface built by this generator.
UniffiVersion == <<"0">>

\* ComponentInterface::default()
DefaultInterface ==
    [uniffi_version |-> <<>>,
     types |-> [type_definitions |-> {}, all_known_types |-> {}],
     namespace |-> <<>>,
     enums |-> <<>>, records |-> <<>>, functions |-> <<>>, objects |-> <<>>,
     callback_interfaces |-> <<>>, errors |-> <<>>]

\* ComponentInterface::new(name): an empty interface with its namespace and version set.
NewInterface(nm) ==
    [DefaultInterface EXCEPT !.uniffi_version = UniffiVersion, !.namespace = nm]

\* A buggy add_namespace_definition that overwrites an earlier namespace.
add_namespace_definition_overwrite(ci, defn) ==
    Ok([ci EXCEPT !.namespace = defn.name])

\* ComponentInterface::add_namespace_definition
add_namespace_definition(ci, defn) ==
    IF ci.namespace # <<>>
    THEN Err(ci, "duplicate namespace definition", <<>>)
    ELSE Ok([ci EXCEPT !.namespace = defn.name])

\* ComponentInterface::add_enum_definition
add_enum_definition(ci, defn) == [ci EXCEPT !.enums = Append(@, defn)]

\* ComponentInterface::add_record_definition
add_record_definition(ci, defn) == [ci EXCEPT !.records = Append(@, defn)]

\* A buggy add_function_definition without the duplicate-name check.
add_function_definition_no_dup_check(ci, defn) ==
    IF IsSome(get_type_definition(ci.types, defn.name))
    THEN Err(ci, "Conflicting type definition", defn.name)
    ELSE Ok([ci EXCEPT !.functions = Append(@, defn)])

\* ComponentInterface::add_function_definition
add_function_definition(ci, defn) ==
    IF \E i \in DOMAIN ci.functions : ci.functions[i].name = defn.name
    THEN Err(ci, "duplicate function definition", defn.name)
    ELSE IF IsSome(get_type_definition(ci.types, defn.name))
    THEN Err(ci, "Conflicting type definition", defn.name)
    ELSE Ok([ci EXCEPT !.functions = Append(@, defn)])

\* ComponentInterface::add_object_definition
add_object_definition(ci, defn) == [ci EXCEPT !.objects = Append(@, defn)]

\* ComponentInterface::add_callback_interface_definition
add_callback_interface_definition(ci, defn) ==
    [ci EXCEPT !.callback_interfaces = Append(@, defn)]

\* ComponentInterface::add_error_definition
add_error_definition(ci, defn) == [ci EXCEPT !.errors = Append(@, defn)]

\* The variant names of all enums, in the order check_consistency visits them.
AllVariantNames(ci) ==
    FlattenSeq([i \in DOMAIN ci.enums |->
        [j \in DOMAIN ci.enums[i].variants |-> ci.enums[i].variants[j].name]])

\* The variant names a buggy check_consistency visits: each enum's first variant only.
FirstVariantNames(ci) ==
    FlattenSeq([i \in DOMAIN ci.enums |->
        IF ci.enums[i].variants = <<>> THEN <<>>
        ELSE <<ci.enums[i].variants[1].name>>])

\* The body of check_consistency, over the variant names it visits: None when
\* the interface is accepted, else the first error found.
CheckNames(ci, names) ==
    IF ci.namespace = <<>>
    THEN Some([msg |-> "missing namespace definition", name |-> <<>>])
    ELSE LET bad == {i \in DOMAIN names : IsSome(get_type_definition(ci.types, names[i]))}
         IN IF bad = {} THEN None
            ELSE Some([msg |-> "Enum variant names must not shadow type names",
                       name |-> names[CHOOSE i \in bad : \A j \in bad : i <= j]])

\* A buggy check_consistency that looks at the first variant of each enum only.
check_consistency_first_variant(ci) == CheckNames(ci, FirstVariantNames(ci))

\* ComponentInterface::check_consistency
check_consistency(ci) == CheckNames(ci, AllVariantNames(ci))

-----------------------------------------------------------------------------
(* FFI derivation. *)

\* Function::derive_ffi_func
Function_derive_ffi_func(f, ci_prefix) ==
    [f EXCEPT !.ffi_func =
        [name |-> Under(ci_prefix, f.name),
         arguments |-> MapSeq(f.arguments, FFIArgumentOf),
         return_type |-> IF IsSome(f.return_type)
                         THEN Some(FFITypeOf(Unwrap(f.return_type))) ELSE None]]

\* Constructor::derive_ffi_func
Constructor_derive_ffi_func(c, ci_prefix, obj_prefix) ==
    [c EXCEPT !.ffi_func =
        [name |-> Under(Under(ci_prefix, obj_prefix), c.name),
         arguments |-> MapSeq(c.arguments, FFIArgumentOf),
         return_type |-> Some("RustArcPtr")]]

\* A buggy Method::derive_ffi_func that extends the argument list it finds
\* instead of replacing it.
Method_derive_ffi_func_extend(m, ci_prefix, obj_prefix) ==
    [m EXCEPT !.ffi_func =
        [name |-> Under(Under(ci_prefix, obj_prefix), m.name),
         arguments |-> m.ffi_func.arguments \o MapSeq(Method_full_arguments(m), FFIArgumentOf),
         return_type |-> IF IsSome(m.return_type)
                         THEN Some(FFITypeOf(Unwrap(m.return_type))) ELSE None]]

\* A buggy Method::derive_ffi_func that also stores the receiver among the
\* declared arguments of the method.
Method_derive_ffi_func_store_receiver(m, ci_prefix, obj_prefix) ==
    [m EXCEPT
        !.arguments = Method_full_arguments(m),
        !.ffi_func =
            [name |-> Under(Under(ci_prefix, obj_prefix), m.name),
             arguments |-> MapSeq(Method_full_arguments(m), FFIArgumentOf),
             return_type |-> IF IsSome(m.return_type)
                             THEN Some(FFITypeOf(Unwrap(m.return_type))) ELSE None]]

\* Method::derive_ffi_func
Method_derive_ffi_func(m, ci_prefix, obj_prefix) ==
    [m EXCEPT !.ffi_func =
        [name |-> Under(Under(ci_prefix, obj_prefix), m.name),
         arguments |-> MapSeq(Method_full_arguments(m), FFIArgumentOf),
         return_type |-> IF IsSome(m.return_type)
                         THEN Some(FFITypeOf(Unwrap(m.return_type))) ELSE None]]

\* Object::derive_ffi_funcs
Object_derive_ffi_funcs(o, ci_prefix) ==
    [o EXCEPT
        !.ffi_func_free =
            [name |-> Under(Under(Under(S_ffi, ci_prefix), o.name), S_object_free),
             arguments |-> <<[name |-> S_ptr, type_ |-> "RustArcPtr"]>>,
             return_type |-> None],
        !.constructors =
            [i \in DOMAIN o.constructors |->
                Constructor_derive_ffi_func(o.constructors[i], ci_prefix, o.name)],
        !.methods =
            [i \in DOMAIN o.methods |->
                Method_derive_ffi_func(o.methods[i], ci_prefix, o.name)]]

\* CallbackInterface::derive_ffi_funcs
CallbackInterface_derive_ffi_funcs(cb, ci_prefix) ==
    [cb EXCEPT !.ffi_init_callback =
        [name |-> Under(Under(Under(S_ffi, ci_prefix), cb.name), S_init_callback),
         arguments |-> <<[name |-> S_callback_stub, type_ |-> "ForeignCallback"]>>,
         return_type |-> None]]

\* A derive_ffi_funcs that leaves alone every function whose descriptor
\* already has a name.
derive_ffi_funcs_unnamed_only(ci) ==
    LET ci_prefix == ffi_namespace(ci) IN
    [ci EXCEPT
        !.functions =
            [i \in DOMAIN ci.functions |->
                IF ci.functions[i].ffi_func.name = <<>>
                THEN Function_derive_ffi_func(ci.functions[i], ci_prefix)
                ELSE ci.functions[i]],
        !.objects =
            [i \in DOMAIN ci.objects |-> Object_derive_ffi_funcs(ci.objects[i], ci_prefix)],
        !.callback_interfaces =
            [i \in DOMAIN ci.callback_interfaces |->
                CallbackInterface_derive_ffi_funcs(ci.callback_interfaces[i], ci_prefix)]]

\* ComponentInterface::derive_ffi_funcs
derive_ffi_funcs(ci) ==
    LET ci_prefix == ffi_namespace(ci) IN
    [ci EXCEPT
        !.functions =
            [i \in DOMAIN ci.functions |-> Function_derive_ffi_func(ci.functions[i], ci_prefix)],
        !.objects =
            [i \in DOMAIN ci.objects |-> Object_derive_ffi_funcs(ci.objects[i], ci_prefix)],
        !.callback_interfaces =
            [i \in DOMAIN ci.callback_interfaces |->
                CallbackInterface_derive_ffi_funcs(ci.callback_interfaces[i], ci_prefix)]]

\* A derive_ffi_funcs that finds no low-level type for a Custom type and
\* returns the internal mapping error for a function that takes one.
derive_ffi_funcs_result_no_custom(ci) ==
    IF \E i \in DOMAIN ci.functions : \E j \in DOMAIN ci.functions[i].arguments :
           ci.functions[i].arguments[j].type_.tag = "Custom"
    THEN Err(ci, "internal mapping error", <<>>)
    ELSE Ok(derive_ffi_funcs(ci))

\* The Result of ComponentInterface::derive_ffi_funcs. The derive functions
\* of functions, objects and methods end in Ok(()) on their only path, those
\* of constructors and callback interfaces return nothing, and the Type ->
\* low-level type conversion is an infallible `into()`: there is nothing for
\* the `?` of derive_ffi_funcs to pass on.
derive_ffi_funcs_result(ci) == Ok(derive_ffi_funcs(ci))

\* Object::iter_ffi_function_definitions: free, then constructors, then methods.
Object_iter_ffi_function_definitions(o) ==
    <<o.ffi_func_free>>
    \o [i \in DOMAIN o.constructors |-> o.constructors[i].ffi_func]
    \o [i \in DOMAIN o.methods |-> o.methods[i].ffi_func]

\* ComponentInterface::iter_user_ffi_function_definitions
iter_user_ffi_function_definitions(ci) ==
    FlattenSeq(MapSeq(ci.objects, Object_iter_ffi_function_definitions))
    \o [i \in DOMAIN ci.callback_interfaces |-> ci.callback_interfaces[i].ffi_init_callback]
    \o [i \in DOMAIN ci.functions |-> ci.functions[i].ffi_func]

\* ComponentInterface::ffi_rustbuffer_alloc
ffi_rustbuffer_alloc(ci) ==
    [name |-> Under(Under(S_ffi, ffi_namespace(ci)), S_rustbuffer_alloc),
     arguments |-> <<[name |-> <<"s","i","z","e">>, type_ |-> "Int32"]>>,
     return_type |-> Some("RustBuffer")]

\* ComponentInterface::ffi_rustbuffer_from_bytes
ffi_rustbuffer_from_bytes(ci) ==
    [name |-> Under(Under(S_ffi, ffi_namespace(ci)), S_rustbuffer_from_bytes),
     arguments |-> <<[name |-> <<"b","y","t","e","s">>, type_ |-> "ForeignBytes"]>>,
     return_type |-> Some("RustBuffer")]

\* ComponentInterface::ffi_rustbuffer_free
ffi_rustbuffer_free(ci) ==
    [name |-> Under(Under(S_ffi, ffi_namespace(ci)), S_rustbuffer_free),
     arguments |-> <<[name |-> <<"b","u","f">>, type_ |-> "RustBuffer"]>>,
     return_type |-> None]

\* ComponentInterface::ffi_rustbuffer_reserve
ffi_rustbuffer_reserve(ci) ==
    [name |-> Under(Under(S_ffi, ffi_namespace(ci)), S_rustbuffer_reserve),
     arguments |-> <<[name |-> <<"b","u","f">>, type_ |-> "RustBuffer"],
                     [name |-> <<"a","d","d","i","t","i","o","n","a","l">>, type_ |-> "Int32"]>>,
     return_type |-> Some("RustBuffer")]

\* iter_rust_buffer_ffi_function_definitions without the reserve built-in.
iter_rust_buffer_ffi_function_definitions_no_reserve(ci) ==
    <<ffi_rustbuffer_alloc(ci), ffi_rustbuffer_from_bytes(ci), ffi_rustbuffer_free(ci)>>

\* ComponentInterface::iter_rust_buffer_ffi_function_definitions
iter_rust_buffer_ffi_function_definitions(ci) ==
    <<ffi_rustbuffer_alloc(ci), ffi_rustbuffer_from_bytes(ci),
      ffi_rustbuffer_free(ci), ffi_rustbuffer_reserve(ci)>>

\* ComponentInterface::iter_ffi_function_definitions
iter_ffi_function_definitions(ci) ==
    iter_user_ffi_function_definitions(ci) \o iter_rust_buffer_ffi_function_definitions(ci)

-----------------------------------------------------------------------------
(* Resolution of type expressions.  An expression is a Type whose named       *)
(* leaves are identifiers: [tag |-> "Ident", name |-> nm].                    *)

E_String == [tag |-> "String"]
E_Ident(nm) == [tag |-> "Ident", name |-> nm]

\* TypeResolver::resolve_type_expression, the Type resolved: None when an
\* identifier of the expression is bound to no type.
RECURSIVE ResolveExpr(_, _)
ResolveExpr(types, e) ==
    CASE e.tag = "Ident" -> get_type_definition(types, e.name)
      [] e.tag \in {"Optional", "Sequence"} ->
            LET inner == ResolveExpr(types, e.inner) IN
            IF IsSome(inner) THEN Some([tag |-> e.tag, inner |-> Unwrap(inner)]) ELSE None
      [] e.tag = "Map" ->
            LET key == ResolveExpr(types, e.key)
                inner == ResolveExpr(types, e.inner) IN
            IF IsSome(key) /\ IsSome(inner)
            THEN Some([tag |-> "Map", key |-> Unwrap(key), inner |-> Unwrap(inner)])
            ELSE None
      [] OTHER -> Some(e)

\* The types resolve_type_expression registers as known while it builds t.
RECURSIVE TypesBuilt(_)
TypesBuilt(t) ==
    {t} \cup
    (CASE t.tag \in {"Optional", "Sequence"} -> TypesBuilt(t.inner)
       [] t.tag = "Map" -> TypesBuilt(t.key) \cup TypesBuilt(t.inner)
       [] OTHER -> {})

\* The first identifier of e that is bound to no type (e does not resolve).
RECURSIVE UnknownIdent(_, _)
UnknownIdent(types, e) ==
    CASE e.tag = "Ident" -> e.name
      [] e.tag \in {"Optional", "Sequence"} -> UnknownIdent(types, e.inner)
      [] e.tag = "Map" ->
            IF ~IsSome(ResolveExpr(types, e.key)) THEN UnknownIdent(types, e.key)
            ELSE UnknownIdent(types, e.inner)
      [] OTHER -> <<>>

\* Resolving the expressions es in order: fails at the first that does not
\* resolve, else registers every type built.
ResolveAll(ci, es) ==
    LET bad == {i \in DOMAIN es : ~IsSome(ResolveExpr(ci.types, es[i]))} IN
    IF bad # {}
    THEN Err(ci, "unknown type reference",
             UnknownIdent(ci.types, es[CHOOSE i \in bad : \A j \in bad : i <= j]))
    ELSE Ok([ci EXCEPT !.types.all_known_types =
                @ \cup UNION {TypesBuilt(Unwrap(ResolveExpr(ci.types, es[i]))) : i \in DOMAIN es}])

Resolved(ci, e) == Unwrap(ResolveExpr(ci.types, e))
ResolvedOption(ci, o) == IF IsSome(o) THEN Some(Resolved(ci, Unwrap(o))) ELSE None

-----------------------------------------------------------------------------
(* Attributes.  The attribute list of a declaration is an Option: None when   *)
(* the declaration has no list, Some(list) of raw attributes otherwise.  A    *)
(* raw attribute is an identifier with an optional right-hand side: `[ByRef]` *)
(* is "ByRef" with None, `[Throws=X]` is "Throws" with Some(X).               *)

RawAttr(ident, rhs) == [ident |-> ident, rhs |-> rhs]
S_ByArc == <<"B","y","A","r","c">>

\* Attribute::try_from(&ExtendedAttribute): the Attribute, or None when the
\* attribute is none of those that are supported.
Attribute_try_from(raw) ==
    CASE raw.ident \in {"ByRef", "Enum", "Error", "Threadsafe", "Custom"} /\ raw.rhs = None ->
            Some([tag |-> raw.ident])
      [] raw.ident \in {"Name", "Throws", "External"} /\ IsSome(raw.rhs) ->
            Some([tag |-> raw.ident, value |-> Unwrap(raw.rhs)])
      [] raw.ident = "Self" /\ raw.rhs = Some(S_ByArc) ->
            Some([tag |-> "SelfType", value |-> "ByArc"])
      [] OTHER -> None

\* The kinds of declaration that carry attributes, and the attributes each
\* kind supports (those its attribute set has an accessor for).
AttributeKinds ==
    {"Enum", "Function", "Argument", "Interface", "Constructor", "Method", "Typedef"}
SupportedAttributes(kind) ==
    CASE kind = "Enum" -> {"Error"}
      [] kind = "Function" -> {"Throws"}
      [] kind = "Argument" -> {"ByRef"}
      [] kind = "Interface" -> {"Enum", "Error", "Threadsafe"}
      [] kind = "Constructor" -> {"Throws", "Name"}
      [] kind = "Method" -> {"Throws", "SelfType"}
      [] kind = "Typedef" -> {"External", "Custom"}

\* An attribute parser that drops what the kind does not support instead of failing.
parse_attributes_lenient(kind, list) ==
    [ok |-> TRUE,
     attrs |-> LET kept == SelectSeq(list, LAMBDA raw :
                               /\ IsSome(Attribute_try_from(raw))
                               /\ Unwrap(Attribute_try_from(raw)).tag \in SupportedAttributes(kind))
               IN [i \in DOMAIN kept |-> Unwrap(Attribute_try_from(kept[i]))],
     err |-> None]

\* TryFrom<&ExtendedAttributeList> for the attribute set of `kind`: every
\* attribute of the list, parsed; fails when one of them is not supported
\* for the kind.
parse_attributes(kind, list) ==
    IF \E i \in DOMAIN list :
          \/ ~IsSome(Attribute_try_from(list[i]))
          \/ Unwrap(Attribute_try_from(list[i])).tag \notin SupportedAttributes(kind)
    THEN [ok |-> FALSE, attrs |-> <<>>,
          err |-> Some([msg |-> "unsupported attribute", name |-> <<>>])]
    ELSE [ok |-> TRUE,
          attrs |-> [i \in DOMAIN list |-> Unwrap(Attribute_try_from(list[i]))],
          err |-> None]

\* impl TryFrom<Option<T>> for EnumAttributes, FunctionAttributes, ...:
\* None => Ok(Default::default()), Some(v) => v.try_into().
Attributes_try_from(kind, value) ==
    IF ~IsSome(value) THEN [ok |-> TRUE, attrs |-> <<>>, err |-> None]
    ELSE parse_attributes(kind, Unwrap(value))

\* ArgumentAttributes::by_ref
by_ref(attributes) == \E i \in DOMAIN attributes : attributes[i].tag = "ByRef"

\* EnumAttributes / InterfaceAttributes::contains_error_attr, contains_enum_attr
contains_error_attr(attributes) == \E i \in DOMAIN attributes : attributes[i].tag = "Error"
contains_enum_attr(attributes) == \E i \in DOMAIN attributes : attributes[i].tag = "Enum"

\* TypedefAttributes::is_custom
is_custom(attributes) == \E i \in DOMAIN attributes : attributes[i].tag = "Custom"

\* FunctionAttributes / ConstructorAttributes / MethodAttributes::get_throws_err:
\* the name of the first Throws attribute.
get_throws_err(attributes) ==
    LET found == SelectSeq(attributes, LAMBDA a : a.tag = "Throws") IN
    IF found = <<>> THEN None ELSE Some(found[1].value)

\* TypedefAttributes::get_crate_name: the name of the first External attribute.
get_crate_name(attributes) ==
    (SelectSeq(attributes, LAMBDA a : a.tag = "External"))[1].value

\* Function::throws / Constructor::throws / Method::throws
throws(callable) == get_throws_err(callable.attributes)

\* Function::throws_type / Constructor::throws_type / Method::throws_type
throws_type(callable) ==
    IF IsSome(throws(callable)) THEN Some(T_Error(Unwrap(throws(callable)))) ELSE None

-----------------------------------------------------------------------------
(* The UDL build: the definitions of a document, the type-finding pass and    *)
(* the detail pass.                                                           *)

N_n == <<"n">>
N_f == <<"f">>
N_g == <<"g">>
N_m == <<"m">>
N_x == <<"x">>
N_A == <<"A">>
N_C == <<"C">>
N_E == <<"E">>
N_V == <<"V">>
N_W == <<"W">>
N_k == <<"k">>
N_S == <<"S">>
N_A_m == <<"A","_","m">>

\* string <nm>();
FnDecl(nm) ==
    [name |-> nm, arguments |-> <<>>, return_type |-> Some(E_String), attributes |-> <<>>]

\* namespace n { <fns> };
NamespaceDefn(fns) == [kind |-> "Namespace", name |-> N_n, functions |-> fns]

\* dictionary A { string x; };
RecordDefn ==
    [kind |-> "Record", name |-> N_A,
     fields |-> <<[name |-> N_x, type_ |-> E_String, required |-> TRUE, default |-> None]>>]

\* enum E { "V", <second> };
EnumDefn(second) ==
    [kind |-> "Enum", name |-> N_E,
     variants |-> <<[name |-> N_V, fields |-> <<>>], [name |-> second, fields |-> <<>>]>>]

\* interface A { constructor(); string m(); };
ObjectDefn ==
    [kind |-> "Object", name |-> N_A,
     constructors |-> <<[name |-> S_new, arguments |-> <<>>, attributes |-> <<>>]>>,
     methods |-> <<[name |-> N_m, arguments |-> <<>>, return_type |-> Some(E_String),
                    attributes |-> <<>>]>>]

\* callback interface C { string m(); };
CallbackInterfaceDefn ==
    [kind |-> "CallbackInterface", name |-> N_C,
     methods |-> <<[name |-> N_m, arguments |-> <<>>, return_type |-> Some(E_String),
                    attributes |-> <<>>]>>]

\* The definitions a document is made of.
Defns ==
    {NamespaceDefn(<<>>), NamespaceDefn(<<FnDecl(N_f)>>), NamespaceDefn(<<FnDecl(N_A)>>),
     NamespaceDefn(<<FnDecl(N_A_m)>>),
     RecordDefn, EnumDefn(N_W), EnumDefn(N_A), ObjectDefn, CallbackInterfaceDefn}

\* The Type a definition introduces (what the type finder binds its name to).
DefnType(d) ==
    CASE d.kind = "Record" -> T_Record(d.name)
      [] d.kind = "Enum" -> T_Enum(d.name)
      [] d.kind = "Error" -> T_Error(d.name)
      [] d.kind = "Object" -> T_Object(d.name)
      [] d.kind = "CallbackInterface" -> T_CallbackInterface(d.name)
      [] d.kind = "Typedef" ->
            LET attrs == Attributes_try_from("Typedef", d.attributes).attrs IN
            IF is_custom(attrs) THEN T_Custom(d.name, d.type_)
            ELSE T_External(d.name, get_crate_name(attrs))

\* A type finder that stops after the first definition of the document.
add_type_definitions_to_head(ds, types) ==
    IF ds = <<>> \/ Head(ds).kind = "Namespace"
    THEN [ok |-> TRUE, types |-> types, err |-> None]
    ELSE add_type_definition(types, Head(ds).name, DefnType(Head(ds)))

\* impl TypeFinder for &[T]: every definition in order, stopping at the first error.
RECURSIVE add_type_definitions_to(_, _)
add_type_definitions_to(ds, types) ==
    IF ds = <<>> THEN [ok |-> TRUE, types |-> types, err |-> None]
    ELSE IF Head(ds).kind = "Namespace" THEN add_type_definitions_to(Tail(ds), types)
    ELSE IF Head(ds).kind = "Typedef"
            /\ ~Attributes_try_from("Typedef", Head(ds).attributes).ok
    THEN [ok |-> FALSE, types |-> types,
          err |-> Attributes_try_from("Typedef", Head(ds).attributes).err]
    ELSE LET r == add_type_definition(types, Head(ds).name, DefnType(Head(ds))) IN
         IF r.ok THEN add_type_definitions_to(Tail(ds), r.types) ELSE r

ArgumentOf(ci, a) ==
    [name |-> a.name, type_ |-> Resolved(ci, a.type_), by_ref |-> a.by_ref,
     optional |-> a.optional, default |-> a.default]
FieldOf(ci, f) ==
    [name |-> f.name, type_ |-> Resolved(ci, f.type_), required |-> f.required,
     default |-> f.default]
ArgExprs(args) == [i \in DOMAIN args |-> args[i].type_]
CallableExprs(c) == ArgExprs(c.arguments) \o c.return_type

FunctionOf(ci, f) ==
    [name |-> f.name, arguments |-> [i \in DOMAIN f.arguments |-> ArgumentOf(ci, f.arguments[i])],
     return_type |-> ResolvedOption(ci, f.return_type),
     ffi_func |-> DefaultFFIFunction,
     attributes |-> Attributes_try_from("Function", f.attributes).attrs]
MethodOf(ci, m, object_name) ==
    [name |-> m.name, object_name |-> object_name,
     return_type |-> ResolvedOption(ci, m.return_type),
     arguments |-> [i \in DOMAIN m.arguments |-> ArgumentOf(ci, m.arguments[i])],
     ffi_func |-> DefaultFFIFunction,
     attributes |-> Attributes_try_from("Method", m.attributes).attrs]
ConstructorOf(ci, c) ==
    [name |-> c.name, arguments |-> [i \in DOMAIN c.arguments |-> ArgumentOf(ci, c.arguments[i])],
     ffi_func |-> DefaultFFIFunction,
     attributes |-> Attributes_try_from("Constructor", c.attributes).attrs]
VariantOf(ci, v) ==
    [name |-> v.name, fields |-> [i \in DOMAIN v.fields |-> FieldOf(ci, v.fields[i])]]
EnumOf(ci, d) ==
    [name |-> d.name, variants |-> [i \in DOMAIN d.variants |-> VariantOf(ci, d.variants[i])],
     flat |-> \A i \in DOMAIN d.variants : d.variants[i].fields = <<>>]

\* The functions of a namespace block, added in order, stopping at the first error.
RECURSIVE AddFunctions(_, _)
AddFunctions(ci, fns) ==
    IF fns = <<>> THEN Ok(ci)
    ELSE LET r == ResolveAll(ci, CallableExprs(Head(fns))) IN
         IF ~r.ok THEN r
         ELSE IF ~Attributes_try_from("Function", Head(fns).attributes).ok
         THEN Err(r.ci, "unsupported attribute", <<>>)
         ELSE LET a == add_function_definition(r.ci, FunctionOf(r.ci, Head(fns))) IN
              IF a.ok THEN AddFunctions(a.ci, Tail(fns)) ELSE a

\* The type expressions of a definition, in declaration order.
DefnExprs(d) ==
    CASE d.kind = "Record" -> ArgExprs(d.fields)
      [] d.kind \in {"Enum", "Error"} ->
            FlattenSeq([i \in DOMAIN d.variants |-> ArgExprs(d.variants[i].fields)])
      [] d.kind = "Object" ->
            FlattenSeq([i \in DOMAIN d.constructors |-> ArgExprs(d.constructors[i].arguments)])
            \o FlattenSeq([i \in DOMAIN d.methods |-> CallableExprs(d.methods[i])])
      [] d.kind = "CallbackInterface" ->
            FlattenSeq([i \in DOMAIN d.methods |-> CallableExprs(d.methods[i])])
      [] OTHER -> <<>>

\* The attribute lists of the members of a definition, each with its kind.
MemberAttributes(d) ==
    CASE d.kind = "Object" ->
            [i \in DOMAIN d.constructors |->
                [kind |-> "Constructor", value |-> d.constructors[i].attributes]]
            \o [i \in DOMAIN d.methods |->
                [kind |-> "Method", value |-> d.methods[i].attributes]]
      [] d.kind = "CallbackInterface" ->
            [i \in DOMAIN d.methods |-> [kind |-> "Method", value |-> d.methods[i].attributes]]
      [] OTHER -> <<>>

\* The detail pass on one definition: its types are resolved, its attributes
\* parsed and the declaration is added to the interface.  A typedef adds
\* nothing: the type-finding pass has dealt with it.
ProcessDefn(ci, d) ==
    IF d.kind = "Namespace"
    THEN LET r == add_namespace_definition(ci, [name |-> d.name]) IN
         IF r.ok THEN AddFunctions(r.ci, d.functions) ELSE r
    ELSE LET r == ResolveAll(ci, DefnExprs(d)) IN
         IF ~r.ok THEN r
         ELSE IF \E i \in DOMAIN MemberAttributes(d) :
                    ~Attributes_try_from(MemberAttributes(d)[i].kind,
                                         MemberAttributes(d)[i].value).ok
         THEN Err(r.ci, "unsupported attribute", <<>>)
         ELSE Ok(CASE d.kind = "Typedef" -> r.ci
                   [] d.kind = "Record" ->
                        add_record_definition(r.ci,
                            [name |-> d.name,
                             fields |-> [i \in DOMAIN d.fields |-> FieldOf(r.ci, d.fields[i])]])
                   [] d.kind = "Enum" -> add_enum_definition(r.ci, EnumOf(r.ci, d))
                   [] d.kind = "Error" ->
                        add_error_definition(r.ci, [name |-> d.name, enum_ |-> EnumOf(r.ci, d)])
                   [] d.kind = "Object" ->
                        add_object_definition(r.ci,
                            [name |-> d.name,
                             constructors |-> [i \in DOMAIN d.constructors |->
                                                  ConstructorOf(r.ci, d.constructors[i])],
                             methods |-> [i \in DOMAIN d.methods |->
                                             MethodOf(r.ci, d.methods[i], d.name)],
                             ffi_func_free |-> DefaultFFIFunction,
                             uses_deprecated_threadsafe_attribute |-> FALSE])
                   [] d.kind = "CallbackInterface" ->
                        add_callback_interface_definition(r.ci,
                            [name |-> d.name,
                             methods |-> [i \in DOMAIN d.methods |->
                                             MethodOf(r.ci, d.methods[i], d.name)],
                             ffi_init_callback |-> DefaultFFIFunction]))

-----------------------------------------------------------------------------
(* Metadata written by the export macro, and parse_iface.                     *)

\* str::strip_suffix / str::strip_prefix: Some(rest), or None.
StripSuffix(s, suf) ==
    IF Len(suf) <= Len(s) /\ SubSeq(s, Len(s) - Len(suf) + 1, Len(s)) = suf
    THEN Some(SubSeq(s, 1, Len(s) - Len(suf))) ELSE None
StripPrefix(s, pre) ==
    IF StartsWith(s, pre) THEN Some(SubSeq(s, Len(pre) + 1, Len(s))) ELSE None

\* str::split('.'): the segments between the dots (one, possibly empty, when there is none).
RECURSIVE SplitDot(_)
SplitDot(s) ==
    IF \A i \in DOMAIN s : s[i] # "." THEN <<s>>
    ELSE LET i == CHOOSE i \in DOMAIN s : s[i] = "." /\ \A j \in 1..(i - 1) : s[j] # "." IN
         <<SubSeq(s, 1, i - 1)>> \o SplitDot(SubSeq(s, i + 1, Len(s)))

Dot(a, b) == a \o <<".">> \o b

\* FnMetadata { module, name, inputs, output }
FnMeta(module, nm, inputs, output) ==
    [module |-> module, name |-> nm, inputs |-> inputs, output |-> output]

\* FnMetadata::write_to: the file "mod.{module}.fn.{name}.json" holding the metadata.
FnMetadata_write_to(meta) ==
    [file_name |-> Dot(Dot(Dot(Dot(S_mod, meta.module), S_fn), meta.name), S_json),
     content |-> meta]

\* StructMetadata::write_to / EnumMetadata::write_to: the file "type.{name}.json".
TypeMetadata_write_to(meta) ==
    [file_name |-> Dot(Dot(S_type, meta.name), S_json), content |-> meta]

\* The Rust type names From<FnMetadata> knows, with the Type of each.
RustTypes ==
    { <<S_String, "String">>, <<S_i32, "Int32">>,
      << <<"u","8">>, "UInt8" >>, << <<"u","1","6">>, "UInt16" >>,
      << <<"u","3","2">>, "UInt32" >>, << <<"u","6","4">>, "UInt64" >>,
      << <<"i","8">>, "Int8" >>, << <<"i","1","6">>, "Int16" >>,
      << <<"i","6","4">>, "Int64" >>, << <<"f","3","2">>, "Float32" >>,
      << <<"f","6","4">>, "Float64" >>, << <<"b","o","o","l">>, "Boolean" >> }

\* impl From<FnMetadata> for Function panics (unimplemented!) on these.
FnMetaUnimplemented(meta) ==
    \/ meta.inputs # <<>>
    \/ IsSome(meta.output) /\ ~\E p \in RustTypes : p[1] = Unwrap(meta.output)

\* impl From<FnMetadata> for Function
FunctionFromMeta(meta) ==
    [name |-> meta.name,
     arguments |-> <<>>,
     return_type |-> IF IsSome(meta.output)
                     THEN Some([tag |-> (CHOOSE p \in RustTypes : p[1] = Unwrap(meta.output))[2]])
                     ELSE None,
     ffi_func |-> [name |-> S_uniffi_placeholder \o meta.name, arguments |-> <<>>,
                   return_type |-> None],
     attributes |-> <<>>]

\* gen_fn_scaffolding: the name of the extern "C" function the export macro
\* emits for the function `name` of the module `mod_path`,
\* "__uniffi_{mod_path}_{name}".
gen_fn_scaffolding(mod_path, name) == Under(S_uniffi_placeholder \o mod_path, name)

\* The items the export attribute is put on: functions with the metadata
\* FnMetadata::new takes from them, and a struct.
ExportedItems ==
    {[kind |-> "Fn", meta |-> FnMeta(N_m, N_f, <<>>, Some(S_String))],
     [kind |-> "Fn", meta |-> FnMeta(N_k, N_f, <<>>, Some(S_i32))],
     [kind |-> "Fn", meta |-> FnMeta(N_m, N_g, <<>>, None)],
     [kind |-> "Fn", meta |-> FnMeta(N_m, N_x, <<[arg |-> 0]>>, None)],
     [kind |-> "Struct", meta |-> [name |-> N_S]]}

\* write_metadata: the file written for a function, a struct or an enum
\* (nothing is written for any other item: the macro fails to expand).
write_metadata(item) ==
    CASE item.kind = "Fn" -> FnMetadata_write_to(item.meta)
      [] item.kind \in {"Struct", "Enum"} -> TypeMetadata_write_to(item.meta)

\* The files the export macro can have written into the metadata directory.
Files == {write_metadata(item) : item \in ExportedItems}

\* The body of parse_iface's loop on one directory entry.
ParseEntry(ci, file) ==
    LET base == StripSuffix(file.file_name, <<".">> \o S_json) IN
    IF ~IsSome(base) THEN Err(ci, "expected only JSON files", file.file_name)
    ELSE LET rest == StripPrefix(Unwrap(base), S_mod \o <<".">>) IN
    IF ~IsSome(rest) THEN Err(ci, "expected filename to being with mod.", <<>>)
    ELSE LET segments == SplitDot(Unwrap(rest)) IN
    IF Len(segments) >= 2 /\ segments[2] = S_fn
    THEN IF FnMetaUnimplemented(file.content)
         THEN Err(ci, "panic: not implemented", file.content.name)
         ELSE add_function_definition(ci, FunctionFromMeta(file.content))
    ELSE IF Len(segments) >= 2 /\ segments[2] = S_impl
    THEN IF Len(segments) < 3 THEN Err(ci, "missing type name in impl metadata filename", <<>>)
         ELSE IF Len(segments) >= 4 /\ segments[4] = S_fn
         THEN Err(ci, "panic: not yet implemented", <<>>)
         ELSE Err(ci, "unexpected filename", <<>>)
    ELSE IF Len(segments) >= 2 /\ segments[2] = S_type
    THEN Err(ci, "panic: not yet implemented", <<>>)
    ELSE Err(ci, "unexpected filename", <<>>)

\* parse_iface's loop over the directory entries in the order read_dir yields
\* them, stopping at the first error.
RECURSIVE ParseEntries(_, _)
ParseEntries(ci, entries) ==
    IF entries = <<>> THEN Ok(ci)
    ELSE IF ParseEntry(ci, Head(entries)).ok
         THEN ParseEntries(ParseEntry(ci, Head(entries)).ci, Tail(entries))
         ELSE ParseEntry(ci, Head(entries))

\* parse_iface in one piece, for a cdylib target named n whose metadata
\* directory is read in the order `entries`.
parse_iface(entries) ==
    LET r == ParseEntries(NewInterface(N_n), entries) IN
    IF ~r.ok THEN r
    ELSE IF IsSome(check_consistency(r.ci))
         THEN [ok |-> FALSE, ci |-> r.ci, err |-> check_consistency(r.ci)]
         ELSE Ok(derive_ffi_funcs(r.ci))

\* The orders in which fs::read_dir may yield the entries of a directory.
ReadDirOrders(files) == {o \in [1..Cardinality(files) -> files] : Range(o) = files}

IsPanic(r) ==
    ~r.ok /\ Unwrap(r.err).msg \in {"panic: not implemented", "panic: not yet implemented"}

-----------------------------------------------------------------------------
(* add_to_ci: metadata items added to an interface the caller holds.          *)

\* The metadata items a batch is made of.
Items ==
    {[kind |-> "Func", meta |-> FnMeta(N_m, N_f, <<>>, Some(S_String))],
     [kind |-> "Func", meta |-> FnMeta(N_m, N_A, <<>>, None)],
     [kind |-> "Record", meta |-> [name |-> N_A, fields |-> <<>>]],
     [kind |-> "Enum", meta |-> [name |-> N_E, variants |-> <<N_V, N_W>>]],
     [kind |-> "Enum", meta |-> [name |-> N_E, variants |-> <<N_V, N_A>>]]}

\* ComponentInterface::add_fn_meta: the metadata converted and added as a function.
add_fn_meta(ci, meta) ==
    IF FnMetaUnimplemented(meta) THEN Err(ci, "panic: not implemented", meta.name)
    ELSE add_function_definition(ci, FunctionFromMeta(meta))

\* A metadata record / enum converted to its declaration.
RecordFromMeta(meta) == [name |-> meta.name, fields |-> meta.fields]
EnumFromMeta(meta) ==
    [name |-> meta.name,
     variants |-> [i \in DOMAIN meta.variants |-> [name |-> meta.variants[i], fields |-> <<>>]],
     flat |-> TRUE]

\* The body of add_to_ci's loop on one metadata item.
AddItem(ci, item) ==
    CASE item.kind = "Func" -> add_fn_meta(ci, item.meta)
      [] item.kind = "Record" ->
            LET ty == T_Record(item.meta.name)
                r == add_type_definition(add_known_type(ci.types, ty), item.meta.name, ty) IN
            IF ~r.ok THEN [ok |-> FALSE, ci |-> [ci EXCEPT !.types = r.types], err |-> r.err]
            ELSE Ok(add_record_definition([ci EXCEPT !.types = r.types],
                                          RecordFromMeta(item.meta)))
      [] item.kind = "Enum" ->
            LET ty == T_Enum(item.meta.name)
                r == add_type_definition(add_known_type(ci.types, ty), item.meta.name, ty) IN
            IF ~r.ok THEN [ok |-> FALSE, ci |-> [ci EXCEPT !.types = r.types], err |-> r.err]
            ELSE Ok(add_enum_definition([ci EXCEPT !.types = r.types],
                                        EnumFromMeta(item.meta)))

\* The named types the declarations of the interface refer to.
RECURSIVE NamedTypesIn(_)
NamedTypesIn(t) ==
    CASE t.tag \in NamedTags -> {t}
      [] t.tag \in {"Optional", "Sequence"} -> NamedTypesIn(t.inner)
      [] t.tag = "Map" -> NamedTypesIn(t.key) \cup NamedTypesIn(t.inner)
      [] OTHER -> {}
SeqTypes(args) == UNION {NamedTypesIn(args[i].type_) : i \in DOMAIN args}
OptionTypes(o) == IF IsSome(o) THEN NamedTypesIn(Unwrap(o)) ELSE {}
MethodsTypes(ms) ==
    UNION {SeqTypes(ms[i].arguments) \cup OptionTypes(ms[i].return_type) : i \in DOMAIN ms}
ReferencedTypes(ci) ==
    UNION {SeqTypes(ci.records[i].fields) : i \in DOMAIN ci.records}
    \cup UNION {UNION {SeqTypes(ci.enums[i].variants[j].fields) :
                           j \in DOMAIN ci.enums[i].variants} : i \in DOMAIN ci.enums}
    \cup UNION {SeqTypes(ci.functions[i].arguments) \cup OptionTypes(ci.functions[i].return_type) :
                    i \in DOMAIN ci.functions}
    \cup UNION {MethodsTypes(ci.objects[i].methods) : i \in DOMAIN ci.objects}
    \cup UNION {MethodsTypes(ci.callback_interfaces[i].methods) :
                    i \in DOMAIN ci.callback_interfaces}

\* ComponentInterface::resolve_types: every type name referred to must be
\* bound in the type universe; the interface is not changed.
resolve_types(ci) ==
    LET unbound == {t \in ReferencedTypes(ci) : get_type_definition(ci.types, t.name) # Some(t)} IN
    IF unbound = {} THEN Ok(ci)
    ELSE Err(ci, "unknown type reference", (CHOOSE t \in unbound : TRUE).name)

-----------------------------------------------------------------------------
(* The types of an item: iter_types of every declaration kind, and the        *)
(* RecursiveTypeIterator behind iter_types_in_item.                           *)

\* Type::iter_types: the type itself, then the types nested in it.
RECURSIVE Type_iter_types(_)
Type_iter_types(t) ==
    <<t>> \o
    (CASE t.tag \in {"Optional", "Sequence"} -> Type_iter_types(t.inner)
       [] t.tag = "Map" -> Type_iter_types(t.key) \o Type_iter_types(t.inner)
       [] OTHER -> <<>>)

Field_iter_types(f) == Type_iter_types(f.type_)
Argument_iter_types(a) == Type_iter_types(a.type_)
Record_iter_types(r) == FlattenSeq([i \in DOMAIN r.fields |-> Field_iter_types(r.fields[i])])
Variant_iter_types(v) == FlattenSeq([i \in DOMAIN v.fields |-> Field_iter_types(v.fields[i])])
Enum_iter_types(e) == FlattenSeq([i \in DOMAIN e.variants |-> Variant_iter_types(e.variants[i])])
Error_iter_types(e) == Enum_iter_types(e.enum_)
Constructor_iter_types(c) ==
    FlattenSeq([i \in DOMAIN c.arguments |-> Argument_iter_types(c.arguments[i])])
Method_iter_types(m) ==
    FlattenSeq([i \in DOMAIN m.arguments |-> Argument_iter_types(m.arguments[i])])
    \o FlattenSeq([i \in DOMAIN m.return_type |-> Type_iter_types(m.return_type[i])])
\* The methods come first, then the constructors.
Object_iter_types(o) ==
    FlattenSeq([i \in DOMAIN o.methods |-> Method_iter_types(o.methods[i])])
    \o FlattenSeq([i \in DOMAIN o.constructors |-> Constructor_iter_types(o.constructors[i])])
CallbackInterface_iter_types(c) ==
    FlattenSeq([i \in DOMAIN c.methods |-> Method_iter_types(c.methods[i])])

\* Constructor::is_primary_constructor
is_primary_constructor(cons) == cons.name = S_new

\* Object::constructors
constructors(o) == o.constructors

\* Object::primary_constructor: the first constructor that is primary, if any.
primary_constructor(o) ==
    IF \E i \in DOMAIN o.constructors : is_primary_constructor(o.constructors[i])
    THEN Some(o.constructors[CHOOSE i \in DOMAIN o.constructors :
                 /\ is_primary_constructor(o.constructors[i])
                 /\ \A j \in 1..(i - 1) : ~is_primary_constructor(o.constructors[j])])
    ELSE None

\* alternate_constructors without its filter.
alternate_constructors_unfiltered(o) == o.constructors

\* Object::alternate_constructors: the constructors that are not primary, in order.
alternate_constructors(o) == SelectSeq(o.constructors, LAMBDA cons : ~is_primary_constructor(cons))

\* Variant::has_fields
has_fields(v) == v.fields # <<>>

\* is_flat that takes every enum for a flat one.
is_flat_always(e) == TRUE

\* Enum::is_flat: the flag stored when the enum was built.
is_flat(e) == e.flat

\* Iterator::find on a list of declarations: the first one named nm.
FindByName(s, nm) ==
    IF \E i \in DOMAIN s : s[i].name = nm
    THEN Some(s[CHOOSE i \in DOMAIN s : s[i].name = nm /\ \A j \in 1..(i - 1) : s[j].name # nm])
    ELSE None

get_enum_definition(ci, nm) == FindByName(ci.enums, nm)
get_record_definition(ci, nm) == FindByName(ci.records, nm)
get_object_definition(ci, nm) == FindByName(ci.objects, nm)
get_callback_interface_definition(ci, nm) == FindByName(ci.callback_interfaces, nm)
get_error_definition(ci, nm) == FindByName(ci.errors, nm)

\* RecursiveTypeIterator::new: the iterator begins with the types of the item itself.
RecursiveTypeIterator_new(item) ==
    [current |-> Type_iter_types(item), seen |-> {}, pending |-> <<>>]

\* add_pending_type without the seen-set: every named type met is queued.
add_pending_type_unseen(s, type_) ==
    IF type_.tag \in NamedTags
    THEN [s EXCEPT !.pending = Append(@, type_), !.seen = @ \cup {type_.name}]
    ELSE s

\* A named user type not seen before is queued and marked as seen.
add_pending_type(s, type_) ==
    IF type_.tag \in NamedTags /\ type_.name \notin s.seen
    THEN [s EXCEPT !.pending = Append(@, type_), !.seen = @ \cup {type_.name}]
    ELSE s

\* advance_to_next_type, the lookup: the types of the declaration of next_type,
\* None when the interface has no such declaration.
NextIter(ci, next_type) ==
    CASE next_type.tag = "Record" ->
            MapSeq(get_record_definition(ci, next_type.name), Record_iter_types)
      [] next_type.tag = "Enum" ->
            MapSeq(get_enum_definition(ci, next_type.name), Enum_iter_types)
      [] next_type.tag = "Error" ->
            MapSeq(get_error_definition(ci, next_type.name), Error_iter_types)
      [] next_type.tag = "Object" ->
            MapSeq(get_object_definition(ci, next_type.name), Object_iter_types)
      [] next_type.tag = "CallbackInterface" ->
            MapSeq(get_callback_interface_definition(ci, next_type.name),
                   CallbackInterface_iter_types)
      [] OTHER -> None

\* Vec::pop on the pending queue: the last type pushed leaves it.
PopPending(s) == [s EXCEPT !.pending = SubSeq(@, 1, Len(@) - 1)]
\* SetCurrent giving up on a missing declaration: the pending queue is dropped.
SetCurrentOrEnd(s, next_iter) ==
    IF IsSome(next_iter) THEN [s EXCEPT !.current = Unwrap(next_iter)]
    ELSE [s EXCEPT !.pending = <<>>]
\* The declaration found becomes the current iterator; when there is none the
\* exhausted iterator stays in place.
SetCurrent(s, next_iter) == IF IsSome(next_iter) THEN [s EXCEPT !.current = Unwrap(next_iter)] ELSE s

\* Iterator::next and advance_to_next_type call each other: next yields the
\* head of the current iterator, or advances to the declaration of the last
\* pending type.  The result is the iterator after the call and the item.
RECURSIVE RecursiveTypeIterator_next(_, _)
RECURSIVE advance_to_next_type(_, _)
RecursiveTypeIterator_next(ci, s) ==
    IF s.current # <<>>
    THEN [iter |-> add_pending_type([s EXCEPT !.current = Tail(@)], Head(s.current)),
          item |-> Some(Head(s.current))]
    ELSE advance_to_next_type(ci, s)
advance_to_next_type(ci, s) ==
    IF s.pending # <<>>
    THEN RecursiveTypeIterator_next(ci,
             SetCurrent(PopPending(s), NextIter(ci, s.pending[Len(s.pending)])))
    ELSE [iter |-> s, item |-> None]

\* Iterator::any(matches!(t, Type::Object(_))) on the iterator s: next() is
\* called until it yields an Object (true) or None (false).
IsObject(t) == t.tag = "Object"
RECURSIVE AnyObject(_, _)
AnyObject(ci, s) ==
    IF ~IsSome(RecursiveTypeIterator_next(ci, s).item) THEN FALSE
    ELSE IF IsObject(Unwrap(RecursiveTypeIterator_next(ci, s).item)) THEN TRUE
    ELSE AnyObject(ci, RecursiveTypeIterator_next(ci, s).iter)

item_contains_object_references(ci, item) == AnyObject(ci, RecursiveTypeIterator_new(item))

-----------------------------------------------------------------------------
(* The state machine. *)

Init ==
    /\ iface = DefaultInterface
    /\ pc = "idle"
    /\ held = FALSE
    /\ error = None
    /\ doc = <<>>
    /\ next_defn = 1
    /\ dir = {}
    /\ snapshot = DefaultInterface
    /\ n_inputs = 0
    /\ it = None

\* A step of a build ended with the error of r: the build stops there.
Fails(r) ==
    /\ pc' = IF IsPanic(r) THEN "panicked" ELSE "failed"
    /\ error' = r.err

\* from_webidl begins: a fresh interface tagged with the generator version.
FromWebidlBegin ==
    /\ pc = "idle"
    /\ pc' = "read"
    /\ iface' = [DefaultInterface EXCEPT !.uniffi_version = UniffiVersion]
    /\ UNCHANGED <<held, error, doc, next_defn, dir, snapshot, n_inputs, it>>

\* The parsed document has one more definition.
ReadDefinition(d) ==
    /\ pc = "read"
    /\ n_inputs < MaxInputs
    /\ doc' = Append(doc, d)
    /\ n_inputs' = n_inputs + 1
    /\ UNCHANGED <<iface, pc, held, error, next_defn, dir, snapshot, it>>

\* The type-finding pass over the whole document.
FindTypes ==
    /\ pc = "read"
    /\ LET r == add_type_definitions_to(doc, iface.types) IN
       /\ iface' = [iface EXCEPT !.types = r.types]
       /\ IF r.ok THEN pc' = "detail" /\ error' = error
          ELSE Fails(r)
    /\ UNCHANGED <<held, doc, next_defn, dir, snapshot, n_inputs, it>>

\* The detail pass on the next definition of the document.
BuildDefinition ==
    /\ pc = "detail"
    /\ next_defn <= Len(doc)
    /\ LET r == ProcessDefn(iface, doc[next_defn]) IN
       /\ iface' = r.ci
       /\ IF r.ok THEN pc' = pc /\ error' = error /\ next_defn' = next_defn + 1
          ELSE Fails(r) /\ next_defn' = next_defn
    /\ UNCHANGED <<held, doc, dir, snapshot, n_inputs, it>>

\* from_webidl: check_consistency once every definition is added.
WebidlCheck ==
    /\ pc = "detail"
    /\ next_defn > Len(doc)
    /\ LET e == check_consistency(iface) IN
       IF IsSome(e) THEN pc' = "failed" /\ error' = e
       ELSE pc' = "derive" /\ error' = error
    /\ UNCHANGED <<iface, held, doc, next_defn, dir, snapshot, n_inputs, it>>

\* from_webidl: derive_ffi_funcs, then Ok(ci) is returned.
WebidlDerive ==
    /\ pc = "derive"
    /\ LET r == derive_ffi_funcs_result(iface) IN
       /\ iface' = r.ci
       /\ IF r.ok THEN pc' = "built" /\ held' = TRUE /\ error' = error
          ELSE Fails(r) /\ held' = held
    /\ UNCHANGED <<doc, next_defn, dir, snapshot, n_inputs, it>>

\* parse_iface begins: a new interface named after the cdylib target, and
\* the files of the metadata directory.
ParseIfaceBegin(files) ==
    /\ pc = "idle"
    /\ Cardinality(files) <= MaxInputs
    /\ iface' = NewInterface(N_n)
    /\ dir' = files
    /\ n_inputs' = Cardinality(files)
    /\ pc' = "pi_read"
    /\ UNCHANGED <<held, error, doc, next_defn, snapshot, it>>

\* parse_iface: one directory entry, in whatever order read_dir yields them.
ParseIfaceEntry(file) ==
    /\ pc = "pi_read"
    /\ file \in dir
    /\ LET r == ParseEntry(iface, file) IN
       /\ iface' = r.ci
       /\ IF r.ok THEN pc' = pc /\ error' = error /\ dir' = dir \ {file}
          ELSE Fails(r) /\ dir' = dir
    /\ UNCHANGED <<held, doc, next_defn, snapshot, n_inputs, it>>

\* parse_iface: check_consistency after the loop.
ParseIfaceCheck ==
    /\ pc = "pi_read"
    /\ dir = {}
    /\ LET e == check_consistency(iface) IN
       IF IsSome(e) THEN pc' = "failed" /\ error' = e
       ELSE pc' = "pi_derive" /\ error' = error
    /\ UNCHANGED <<iface, held, doc, next_defn, dir, snapshot, n_inputs, it>>

\* parse_iface: derive_ffi_funcs, then Ok(iface) is returned.
ParseIfaceDerive ==
    /\ pc = "pi_derive"
    /\ LET r == derive_ffi_funcs_result(iface) IN
       /\ iface' = r.ci
       /\ IF r.ok THEN pc' = "built" /\ held' = TRUE /\ error' = error
          ELSE Fails(r) /\ held' = held
    /\ UNCHANGED <<doc, next_defn, dir, snapshot, n_inputs, it>>

\* add_to_ci is called on the interface the caller holds.
AddToCiBegin ==
    /\ pc = "built"
    /\ snapshot' = iface
    /\ pc' = "atc_items"
    /\ UNCHANGED <<iface, held, error, doc, next_defn, dir, n_inputs, it>>

\* add_to_ci: the next metadata item of the batch.
AddToCiItem(item) ==
    /\ pc = "atc_items"
    /\ n_inputs < MaxInputs
    /\ n_inputs' = n_inputs + 1
    /\ LET r == AddItem(iface, item) IN
       /\ iface' = r.ci
       /\ IF r.ok THEN pc' = pc /\ error' = error
          ELSE Fails(r)
    /\ UNCHANGED <<held, doc, next_defn, dir, snapshot, it>>

\* add_to_ci: resolve_types after the last item.
AddToCiResolve ==
    /\ pc = "atc_items"
    /\ LET r == resolve_types(iface) IN
       /\ iface' = r.ci
       /\ IF r.ok THEN pc' = "atc_derive" /\ error' = error
          ELSE Fails(r)
    /\ UNCHANGED <<held, doc, next_defn, dir, snapshot, n_inputs, it>>

\* add_to_ci: derive_ffi_funcs.
AddToCiDerive ==
    /\ pc = "atc_derive"
    /\ LET r == derive_ffi_funcs_result(iface) IN
       /\ iface' = r.ci
       /\ IF r.ok THEN pc' = "atc_check" /\ error' = error
          ELSE Fails(r)
    /\ UNCHANGED <<held, doc, next_defn, dir, snapshot, n_inputs, it>>

\* add_to_ci: check_consistency, then Ok(()) or the error is returned.
AddToCiCheck ==
    /\ pc = "atc_check"
    /\ LET e == check_consistency(iface) IN
       IF IsSome(e) THEN pc' = "failed" /\ error' = e
       ELSE pc' = "built" /\ error' = error
    /\ UNCHANGED <<iface, held, doc, next_defn, dir, snapshot, n_inputs, it>>

Next ==
    \/ FromWebidlBegin
    \/ \E d \in Defns : ReadDefinition(d)
    \/ FindTypes
    \/ BuildDefinition
    \/ WebidlCheck
    \/ WebidlDerive
    \/ \E files \in SUBSET Files : ParseIfaceBegin(files)
    \/ \E file \in Files : ParseIfaceEntry(file)
    \/ ParseIfaceCheck
    \/ ParseIfaceDerive
    \/ AddToCiBegin
    \/ \E item \in Items : AddToCiItem(item)
    \/ AddToCiResolve
    \/ AddToCiDerive
    \/ AddToCiCheck

Spec == Init /\ [][Next]_vars

-----------------------------------------------------------------------------
(* Queries on a built interface: a caller holds the interface from_webidl     *)
(* returned for a document, and enumerates the types of an item.              *)

N_R == <<"R">>
N_T == <<"T">>
N_O == <<"O">>
N_P == <<"P">>
N_F == <<"F">>
N_Z == <<"Z">>
N_s == <<"s">>
N_r == <<"r">>
N_q == <<"q">>
N_t == <<"t">>
N_o == <<"o">>
N_p == <<"p">>

E_Optional(e) == [tag |-> "Optional", inner |-> e]
E_Sequence(e) == [tag |-> "Sequence", inner |-> e]
FieldDecl(nm, e) == [name |-> nm, type_ |-> e, required |-> TRUE, default |-> None]
ArgDecl(nm, e) ==
    [name |-> nm, type_ |-> e, by_ref |-> FALSE, optional |-> FALSE, default |-> None]

\* dictionary R { S? s; };
RecordR == [kind |-> "Record", name |-> N_R,
            fields |-> <<FieldDecl(N_s, E_Optional(E_Ident(N_S)))>>]
\* dictionary S { sequence<R> r; R? q; };
RecordS == [kind |-> "Record", name |-> N_S,
            fields |-> <<FieldDecl(N_r, E_Sequence(E_Ident(N_R))),
                         FieldDecl(N_q, E_Optional(E_Ident(N_R)))>>]
\* dictionary T { T? t; O o; };
RecordT == [kind |-> "Record", name |-> N_T,
            fields |-> <<FieldDecl(N_t, E_Optional(E_Ident(N_T))),
                         FieldDecl(N_o, E_Ident(N_O))>>]
\* interface O { [Name=k] constructor(T t); constructor(); string m(); };
ObjectO ==
    [kind |-> "Object", name |-> N_O,
     constructors |-> <<[name |-> N_k, arguments |-> <<ArgDecl(N_t, E_Ident(N_T))>>,
                         attributes |-> <<>>],
                        [name |-> S_new, arguments |-> <<>>, attributes |-> <<>>]>>,
     methods |-> <<[name |-> N_m, arguments |-> <<>>, return_type |-> Some(E_String),
                    attributes |-> <<>>]>>]
\* interface P { };
ObjectP == [kind |-> "Object", name |-> N_P, constructors |-> <<>>, methods |-> <<>>]
\* [Enum] interface F { V(P p); W(); };
EnumF ==
    [kind |-> "Enum", name |-> N_F,
     variants |-> <<[name |-> N_V, fields |-> <<FieldDecl(N_p, E_Ident(N_P))>>],
                    [name |-> N_W, fields |-> <<>>]>>]

\* The definitions a queried document is made of, after its namespace block.
QueryDefns == {RecordR, RecordS, RecordT, ObjectDefn, ObjectO, ObjectP, EnumF, EnumDefn(N_W)}

\* The documents: a namespace block and at most MaxInputs definitions.
QueryDocs ==
    UNION {{<<NamespaceDefn(<<>>)>> \o ds : ds \in [1..n -> QueryDefns]} : n \in 0..MaxInputs}

\* The detail pass over the definitions ds, stopping at the first error.
RECURSIVE ProcessDefns(_, _)
ProcessDefns(ci, ds) ==
    IF ds = <<>> THEN Ok(ci)
    ELSE IF ProcessDefn(ci, Head(ds)).ok
         THEN ProcessDefns(ProcessDefn(ci, Head(ds)).ci, Tail(ds))
         ELSE ProcessDefn(ci, Head(ds))

\* ComponentInterface::from_webidl on the definitions ds, in one piece.
from_webidl(ds) ==
    LET ci == [DefaultInterface EXCEPT !.uniffi_version = UniffiVersion]
        found == add_type_definitions_to(ds, ci.types) IN
    IF ~found.ok THEN [ok |-> FALSE, ci |-> [ci EXCEPT !.types = found.types], err |-> found.err]
    ELSE LET r == ProcessDefns([ci EXCEPT !.types = found.types], ds) IN
         IF ~r.ok THEN r
         ELSE IF IsSome(check_consistency(r.ci))
              THEN [ok |-> FALSE, ci |-> r.ci, err |-> check_consistency(r.ci)]
              ELSE Ok(derive_ffi_funcs(r.ci))

\* The items a caller asks about: the types the interface knows, a named
\* type the interface has no declaration for, and maps to it.
QueryItems(ci) ==
    ci.types.all_known_types \cup {T_Record(N_Z)}
    \cup {[tag |-> "Map", key |-> t, inner |-> T_Record(N_Z)] :
            t \in {u \in ci.types.all_known_types : u.tag \in NamedTags}}

\* from_webidl has returned for a document: the interface, or the error.
InitQuery ==
    /\ \E ds \in QueryDocs :
          /\ doc = ds
          /\ iface = from_webidl(ds).ci
          /\ error = from_webidl(ds).err
          /\ held = from_webidl(ds).ok
          /\ pc = IF from_webidl(ds).ok THEN "built" ELSE "failed"
    /\ next_defn = Len(doc) + 1
    /\ dir = {}
    /\ snapshot = DefaultInterface
    /\ n_inputs = Len(doc) - 1
    /\ it = None

\* iter_types_in_item(item): a fresh iterator; `yielded` is what its caller
\* has received so far, `done` that the caller has received None.
IterTypesInItem(item) ==
    /\ pc = "built"
    /\ held
    /\ it = None
    /\ it' = Some([iter |-> RecursiveTypeIterator_new(item), item |-> item,
                   yielded |-> <<>>, done |-> FALSE])
    /\ UNCHANGED <<iface, pc, held, error, doc, next_defn, dir, snapshot, n_inputs>>

\* One call of next() by the caller of the enumeration.
IterNext ==
    /\ IsSome(it)
    /\ ~Unwrap(it).done
    /\ LET r == RecursiveTypeIterator_next(iface, Unwrap(it).iter) IN
       it' = Some([Unwrap(it) EXCEPT !.iter = r.iter,
                                     !.yielded = @ \o r.item,
                                     !.done = ~IsSome(r.item)])
    /\ UNCHANGED <<iface, pc, held, error, doc, next_defn, dir, snapshot, n_inputs>>

QueryNext ==
    \/ \E item \in QueryItems(iface) : IterTypesInItem(item)
    \/ IterNext

SpecQuery == InitQuery /\ [][QueryNext]_vars

-----------------------------------------------------------------------------
(* Typed documents: from_webidl on a parsed document whose functions and      *)
(* methods take and return every kind of type and carry attribute lists.      *)

N_X == <<"X">>
N_H == <<"H">>
N_U == <<"U">>
N_c == <<"c">>
S_extern == <<"e","x","t","e","r","n">>

\* [Error] enum X { "V" };
ErrorX == [kind |-> "Error", name |-> N_X, variants |-> <<[name |-> N_V, fields |-> <<>>]>>]
\* [External="c"] typedef extern H;
TypedefExternal ==
    [kind |-> "Typedef", name |-> N_H, type_ |-> E_Ident(S_extern),
     attributes |-> Some(<<RawAttr("External", Some(N_c))>>)]
\* [Custom] typedef string U;
TypedefCustom ==
    [kind |-> "Typedef", name |-> N_U, type_ |-> E_String,
     attributes |-> Some(<<RawAttr("Custom", None)>>)]
\* [ByRef] typedef string U;
TypedefByRef ==
    [kind |-> "Typedef", name |-> N_U, type_ |-> E_String,
     attributes |-> Some(<<RawAttr("ByRef", None)>>)]

\* The declarations of named types, in the order a document lists them.
TypeDecls ==
    <<RecordDefn, EnumDefn(N_W), ErrorX, ObjectP, CallbackInterfaceDefn,
      TypedefExternal, TypedefCustom>>

\* The type expressions of arguments and return types.
BuiltinTags == {"UInt8", "Int8", "UInt16", "Int16", "UInt32", "Int32", "UInt64", "Int64",
                "Float32", "Float64", "Boolean", "String", "Bytes"}
TypeExprs ==
    {[tag |-> b] : b \in BuiltinTags}
    \cup {E_Ident(TypeDecls[i].name) : i \in DOMAIN TypeDecls}
    \cup {E_Optional(E_String), E_Sequence(E_Ident(N_A)),
          [tag |-> "Map", key |-> E_String, inner |-> [tag |-> "Int32"]]}

\* The attribute lists of functions, and of methods and constructors.
FunctionAttributeLists ==
    {Some(<<>>),
     Some(<<RawAttr("Throws", Some(N_X))>>),
     Some(<<RawAttr("Throws", Some(N_A))>>),
     Some(<<RawAttr("ByRef", None)>>),
     Some(<<RawAttr("Foo", None)>>),
     Some(<<RawAttr("Throws", Some(N_X)), RawAttr("Foo", None)>>)}
MethodAttributeLists ==
    {None,
     Some(<<RawAttr("Self", Some(S_ByArc))>>),
     Some(<<RawAttr("Throws", Some(N_X))>>),
     Some(<<RawAttr("Throws", Some(N_X)), RawAttr("Self", Some(S_ByArc))>>),
     Some(<<RawAttr("Name", Some(N_k))>>),
     Some(<<RawAttr("Self", Some(N_k))>>)}
ConstructorAttributeLists ==
    {Some(<<RawAttr("Throws", Some(N_X))>>),
     Some(<<RawAttr("Name", Some(N_k)), RawAttr("Throws", Some(N_Z))>>),
     Some(<<RawAttr("Self", Some(S_ByArc))>>)}

\* [attrs] <ret> f(<args>);
TypedFn(args, ret, attrs) ==
    [name |-> N_f, arguments |-> args, return_type |-> ret, attributes |-> attrs]
TypedFns ==
    {TypedFn(<<ArgDecl(N_x, e)>>, None, None) : e \in TypeExprs}
    \cup {TypedFn(<<>>, Some(e), None) : e \in TypeExprs}
    \cup {TypedFn(<<ArgDecl(N_x, E_String)>>, Some(E_String), a) : a \in FunctionAttributeLists}

\* The declared arguments of a method: at most two of these, in any order.
MethodArgs == {ArgDecl(N_x, E_String), ArgDecl(N_t, [tag |-> "Int32"]), ArgDecl(N_p, E_Ident(N_P))}
MethodArgLists == UNION {[1..n -> MethodArgs] : n \in 0..2}

\* interface P { [cattrs] constructor(); [mattrs] string m(<args>); };
ObjectM(args, mattrs, cattrs) ==
    [kind |-> "Object", name |-> N_P,
     constructors |-> <<[name |-> S_new, arguments |-> <<>>, attributes |-> cattrs]>>,
     methods |-> <<[name |-> N_m, arguments |-> args, return_type |-> Some(E_String),
                    attributes |-> mattrs]>>]
ObjectMs ==
    {ObjectM(args, mattrs, None) : args \in MethodArgLists, mattrs \in MethodAttributeLists}
    \cup {ObjectM(<<>>, None, cattrs) : cattrs \in ConstructorAttributeLists}

\* The documents: a namespace block with one function and at most
\* MaxInputs - 1 declarations of named types, or an empty namespace block, an
\* interface and at most MaxInputs - 2 declarations.
TypedDocs ==
    {<<NamespaceDefn(<<fn>>)>> \o [k \in 1..Cardinality(is) |->
            TypeDecls[CHOOSE i \in is : Cardinality({j \in is : j < i}) = k - 1]] :
        fn \in TypedFns, is \in {x \in SUBSET DOMAIN TypeDecls : Cardinality(x) <= MaxInputs - 1}}
    \cup {<<NamespaceDefn(<<>>), o>> \o ds :
            o \in ObjectMs, ds \in UNION {[1..n -> {ErrorX}] : n \in 0..(MaxInputs - 2)}}
    \cup {<<NamespaceDefn(<<>>), TypedefByRef>>}

\* from_webidl has begun and the document is parsed.
InitTyped ==
    /\ doc \in TypedDocs
    /\ iface = [DefaultInterface EXCEPT !.uniffi_version = UniffiVersion]
    /\ pc = "read"
    /\ held = FALSE
    /\ error = None
    /\ next_defn = 1
    /\ dir = {}
    /\ snapshot = DefaultInterface
    /\ n_inputs = Len(doc)
    /\ it = None

TypedNext ==
    \/ FindTypes
    \/ BuildDefinition
    \/ WebidlCheck
    \/ WebidlDerive

SpecTyped == InitTyped /\ [][TypedNext]_vars

-----------------------------------------------------------------------------
(* Properties. *)

PairwiseDistinct(s) == \A i, j \in DOMAIN s : s[i] = s[j] => i = j
Names(s) == [i \in DOMAIN s |-> s[i].name]

\* The program counters at which the next step is derive_ffi_funcs.
DerivePcs == {"derive", "pi_derive", "atc_derive"}
\* The next step is check_consistency.
AtCheck ==
    \/ pc = "detail" /\ next_defn > Len(doc)
    \/ pc = "pi_read" /\ dir = {}
    \/ pc = "atc_check"

\* C1: the FFI namespace of a built interface is its namespace, an underscore
\* and exactly four hexadecimal digits, whatever the checksum is.
C1_FfiNamespaceFourHexDigits ==
    pc = "built" =>
        /\ Len(ffi_namespace(iface)) = Len(iface.namespace) + 5
        /\ SubSeq(ffi_namespace(iface), 1, Len(iface.namespace) + 1) = iface.namespace \o <<"_">>

\* C2: in a successfully built interface the symbol names of all FFI
\* functions (user-defined and byte-buffer built-ins) are pairwise distinct.
C2_FfiNamesDistinct ==
    pc = "built" => PairwiseDistinct(Names(iter_ffi_function_definitions(iface)))

\* C3: on every build path derive_ffi_funcs runs only on an interface that
\* check_consistency accepts.
C3_CheckBeforeDerive ==
    pc \in DerivePcs => check_consistency(iface) = None

\* C4: whenever derive_ffi_funcs is about to run or has run, once or more
\* often, the checksum and the FFI namespace of the interface are those of
\* the interface after another run of derive_ffi_funcs.
C4_ChecksumIgnoresFfi ==
    pc \in DerivePcs \cup {"built", "atc_check"} =>
        LET derived == derive_ffi_funcs(iface) IN
        \* (nothing to compare where the run changes nothing at all)
        \/ derived = iface
        \/ /\ checksum(derived) = checksum(iface)
           /\ ffi_namespace(derived) = ffi_namespace(iface)

\* C4 witness: derive_ffi_funcs has run a second time on an interface
\* with functions and objects.
C4_Witness ==
    pc = "atc_check" /\ iface.functions # <<>> /\ iface.objects # <<>>

\* C5: deriving the FFI functions of an interface they were already derived
\* for changes no symbol name, argument list or return type.
C5_DeriveIdempotent ==
    pc \in {"built", "atc_check"} =>
        LET again == derive_ffi_funcs(iface) IN
        /\ again = iface
        /\ iter_user_ffi_function_definitions(again) = iter_user_ffi_function_definitions(iface)

\* C5 witness: a built interface with an object (free function, constructor
\* and method), a callback interface and a function.
C5_Witness ==
    /\ pc = "built"
    /\ iface.objects # <<>>
    /\ iface.objects[1].methods # <<>>
    /\ iface.objects[1].constructors # <<>>
    /\ iface.functions # <<>>

\* The step ends the build with a new error of this message.
FailsWith(msg) == error = None /\ IsSome(error') /\ error'[1].msg = msg

\* C6: function names are pairwise distinct after every step, and a step
\* that fails for a duplicate function names a function already in the list
\* and leaves the list of functions as it was.
C6_DuplicateFunctionRejected ==
    [][/\ PairwiseDistinct(Names(iface'.functions))
       /\ FailsWith("duplicate function definition") =>
              /\ iface'.functions = iface.functions
              /\ \E i \in DOMAIN iface.functions : iface.functions[i].name = error'[1].name]_vars

\* C6 witness: a build has failed for a duplicate function.
C6_Witness ==
    /\ pc = "failed"
    /\ IsSome(error)
    /\ error[1].msg = "duplicate function definition"
    /\ iface.functions # <<>>

\* C7: in a successfully built interface no function has the name of a
\* registered type.
C7_NoFunctionNamedLikeType ==
    pc = "built" =>
        \A i \in DOMAIN iface.functions :
            get_type_definition(iface.types, iface.functions[i].name) = None

\* Some variant of some enum of ci has the name nm.
IsVariantName(ci, nm) ==
    \E i \in DOMAIN ci.enums : \E j \in DOMAIN ci.enums[i].variants :
        ci.enums[i].variants[j].name = nm

\* No variant of an enum of ci has the name of a registered type.
NoVariantShadowsType(ci) ==
    \A i \in DOMAIN ci.enums : \A j \in DOMAIN ci.enums[i].variants :
        get_type_definition(ci.types, ci.enums[i].variants[j].name) = None

\* C8: a step that passes check_consistency leaves an interface in which no
\* enum variant has the name of a registered type; a step that fails it for
\* a shadowing variant names a variant that has the name of a registered
\* type, and leaves the interface as it was.
C8_VariantShadowingRejected ==
    [][/\ (AtCheck /\ pc' \in DerivePcs \cup {"built"}) => NoVariantShadowsType(iface')
       /\ FailsWith("Enum variant names must not shadow type names") =>
              /\ iface' = iface
              /\ IsVariantName(iface, error'[1].name)
              /\ IsSome(get_type_definition(iface.types, error'[1].name))]_vars

\* C8 witness: check_consistency has rejected an interface for a variant
\* that is not the first of its enum.
C8_Witness ==
    /\ pc = "failed"
    /\ IsSome(error)
    /\ error[1].msg = "Enum variant names must not shadow type names"
    /\ \E i \in DOMAIN iface.enums : iface.enums[i].variants[2].name = error[1].name

\* The namespace definitions of the document.
NamespaceDefns == {i \in DOMAIN doc : doc[i].kind = "Namespace"}

\* C9: an interface that passes check_consistency has a non-empty namespace,
\* and when built from a document, the document has exactly one namespace
\* definition; a step that fails for a duplicate namespace leaves the stored,
\* non-empty namespace as it was; check_consistency fails for a missing
\* namespace exactly when the namespace is empty.
C9_ExactlyOneNamespace ==
    [][/\ (AtCheck /\ pc' \in DerivePcs \cup {"built"}) => iface'.namespace # <<>>
       /\ pc' = "derive" => Cardinality(NamespaceDefns) = 1
       /\ FailsWith("duplicate namespace definition") =>
              (iface'.namespace = iface.namespace /\ iface.namespace # <<>>)
       /\ (AtCheck /\ pc' # pc /\ iface.namespace = <<>>) =>
              FailsWith("missing namespace definition")
       /\ FailsWith("missing namespace definition") => iface.namespace = <<>>]_vars

\* C9 witness: a build has failed for a second namespace definition.
C9_Witness ==
    /\ pc = "failed"
    /\ IsSome(error)
    /\ error[1].msg = "duplicate namespace definition"
    /\ Cardinality(NamespaceDefns) >= 2

\* C10: when add_to_ci has failed, the interface the caller holds is the one
\* they passed in; when parse_iface or the document build has failed, the
\* caller holds no interface.
C10_AllOrNothing ==
    pc = "failed" => (held => iface = snapshot)

-----------------------------------------------------------------------------
(* Properties of the type enumeration (SpecQuery). *)

\* The types of every declaration of the interface, declaration by declaration.
DeclarationTypes(ci) ==
    FlattenSeq(MapSeq(ci.records, Record_iter_types))
    \o FlattenSeq(MapSeq(ci.enums, Enum_iter_types))
    \o FlattenSeq(MapSeq(ci.errors, Error_iter_types))
    \o FlattenSeq(MapSeq(ci.objects, Object_iter_types))
    \o FlattenSeq(MapSeq(ci.callback_interfaces, CallbackInterface_iter_types))

Count(s, x) == Cardinality({i \in DOMAIN s : s[i] = x})
Yielded == Unwrap(it).yielded
EnumerationDone == IsSome(it) /\ Unwrap(it).done
RecordsOf(ci) == {ci.records[i].name : i \in DOMAIN ci.records}

\* C11: iter_types_in_item terminates, cyclic references included: an
\* enumeration never yields more types than the item and the declarations of
\* the interface hold together, so after at most that many calls of next()
\* the next one returns None.
C11_EnumerationTerminates ==
    IsSome(it) =>
        Len(Yielded) <= Len(Type_iter_types(Unwrap(it).item)) + Len(DeclarationTypes(iface))

\* An enumeration over the mutually recursive records R and S has ended.
C11_Witness ==
    /\ EnumerationDone
    /\ Unwrap(it).item = T_Record(N_R)
    /\ {N_R, N_S} \subseteq RecordsOf(iface)
    /\ T_Record(N_S) \in Range(Yielded)

\* C12 (as stated): no named user type is yielded more than once in one enumeration.
C12_NoNamedTypeYieldedTwice ==
    IsSome(it) =>
        \A i, j \in DOMAIN Yielded :
            (Yielded[i].tag \in NamedTags /\ Yielded[i] = Yielded[j]) => i = j

\* C12 (amended): the seen-set deduplicates the pending queue, not the
\* sequence: a name is queued at most once, so each declaration is expanded
\* at most once, and a type is yielded at most once per occurrence in the
\* item and in the declarations.
C12_PendingDeduplicated ==
    IsSome(it) =>
        /\ PairwiseDistinct(Names(Unwrap(it).iter.pending))
        /\ \A i \in DOMAIN Unwrap(it).iter.pending :
              Unwrap(it).iter.pending[i].name \in Unwrap(it).iter.seen
        /\ \A t \in Range(Yielded) :
              Count(Yielded, t) <= Count(Type_iter_types(Unwrap(it).item), t)
                                   + Count(DeclarationTypes(iface), t)

\* An enumeration over the mutually recursive records R and S has ended, and
\* it yielded Record R more than once.
C12_Witness ==
    /\ EnumerationDone
    /\ {N_R, N_S} \subseteq RecordsOf(iface)
    /\ Count(Yielded, T_Record(N_R)) > 1

\* The types met in one step from the types of ts: their structural
\* components and, for a named type, the types of its declaration.
ReachStep(ci, ts) ==
    ts \cup UNION {Range(Type_iter_types(t)) \cup Range(FlattenSeq(NextIter(ci, t))) : t \in ts}

\* The types transitively reachable from the types of ts.
RECURSIVE ReachFrom(_, _)
ReachFrom(ci, ts) == IF ReachStep(ci, ts) = ts THEN ts ELSE ReachFrom(ci, ReachStep(ci, ts))
Reachable(ci, item) == ReachFrom(ci, {item})

\* C13: a finished enumeration has yielded exactly the types transitively
\* reachable from the item, a reached name without declaration being skipped;
\* and item_contains_object_references is true iff an Object is reachable.
C13_YieldsReachableTypes ==
    IsSome(it) =>
        /\ Range(Yielded) \subseteq Reachable(iface, Unwrap(it).item)
        /\ Unwrap(it).done => Range(Yielded) = Reachable(iface, Unwrap(it).item)
        /\ item_contains_object_references(iface, Unwrap(it).item)
              <=> (\E t \in Reachable(iface, Unwrap(it).item) : IsObject(t))

\* An enumeration has ended that met the undeclared Record Z before the
\* declared Record T, and reached the Object O through T.
C13_Witness ==
    /\ EnumerationDone
    /\ Unwrap(it).item = [tag |-> "Map", key |-> T_Record(N_T), inner |-> T_Record(N_Z)]
    /\ T_Object(N_O) \in Range(Yielded)
    /\ item_contains_object_references(iface, Unwrap(it).item)

-----------------------------------------------------------------------------
(* Properties of the FFI function list. *)

\* The symbols the members of object o are exported under, given the prefix ns.
ObjectSymbols(o, ns) ==
    <<Under(Under(Under(S_ffi, ns), o.name), S_object_free)>>
    \o [i \in DOMAIN o.constructors |-> Under(Under(ns, o.name), o.constructors[i].name)]
    \o [i \in DOMAIN o.methods |-> Under(Under(ns, o.name), o.methods[i].name)]

\* The symbols of an interface whose FFI namespace is ns: objects, callback
\* interfaces, functions, then the four byte-buffer built-ins.
ExpectedSymbols(ci, ns) ==
    FlattenSeq([i \in DOMAIN ci.objects |-> ObjectSymbols(ci.objects[i], ns)])
    \o [i \in DOMAIN ci.callback_interfaces |->
           Under(Under(Under(S_ffi, ns), ci.callback_interfaces[i].name), S_init_callback)]
    \o [i \in DOMAIN ci.functions |-> Under(ns, ci.functions[i].name)]
    \o <<Under(Under(S_ffi, ns), S_rustbuffer_alloc),
         Under(Under(S_ffi, ns), S_rustbuffer_from_bytes),
         Under(Under(S_ffi, ns), S_rustbuffer_free),
         Under(Under(S_ffi, ns), S_rustbuffer_reserve)>>

OnlyOneFunction(ci) ==
    Len(ci.functions) = 1 /\ ci.objects = <<>> /\ ci.callback_interfaces = <<>>

\* C14: in a built interface iter_ffi_function_definitions yields, in this
\* order, for each object its free function, its constructors and its methods,
\* one init function per callback interface, one function per top-level
\* function, and then the four byte-buffer built-ins (alloc, from_bytes, free,
\* reserve), each under its symbol; with one function and nothing else that is
\* five functions, the first being ffi_namespace() + "_" + the function name.
C14_FfiFunctionDefinitions ==
    pc = "built" =>
        LET ns == ffi_namespace(iface)
            ffi_funcs == iter_ffi_function_definitions(iface) IN
        /\ Names(ffi_funcs) = ExpectedSymbols(iface, ns)
        /\ OnlyOneFunction(iface) =>
              /\ Len(ffi_funcs) = 5
              /\ ffi_funcs[1].name = ns \o <<"_">> \o iface.functions[1].name

\* A built interface with one function and nothing else.
C14_Witness == pc = "built" /\ OnlyOneFunction(iface)

-----------------------------------------------------------------------------
(* Properties of the checksum across builds. *)

\* C15 (as stated): two builds from the same declarations give the same
\* checksum() and ffi_namespace(), whatever the order in which the
\* declarations arrived: when parse_iface is about to read a metadata
\* directory, any two orders of reading it that both build an interface give
\* interfaces with equal checksum and equal FFI namespace.
C15_ChecksumIgnoresArrivalOrder ==
    (pc = "pi_read" /\ iface = NewInterface(N_n)) =>
        \A o1, o2 \in ReadDirOrders(dir) :
            (parse_iface(o1).ok /\ parse_iface(o2).ok) =>
                /\ checksum(parse_iface(o1).ci) = checksum(parse_iface(o2).ci)
                /\ ffi_namespace(parse_iface(o1).ci) = ffi_namespace(parse_iface(o2).ci)

-----------------------------------------------------------------------------
(* Properties of the type registry and of the declarations. *)

\* C16 (as stated): in a built interface no two records, no two enums, no
\* two errors, no two objects and no two callback interfaces share a name.
C16_OneDeclarationPerName ==
    pc = "built" =>
        /\ PairwiseDistinct(Names(iface.records))
        /\ PairwiseDistinct(Names(iface.enums))
        /\ PairwiseDistinct(Names(iface.errors))
        /\ PairwiseDistinct(Names(iface.objects))
        /\ PairwiseDistinct(Names(iface.callback_interfaces))

\* The names and types add_type_definition is called with.
CallNames == {N_A, N_E}
CallTypes == UNION {{T_Record(nm), T_Enum(nm), T_Object(nm)} : nm \in CallNames}

\* What one call add_type_definition(nm, t) does to the registry `types`.
AddTypeDefinitionContract(types, nm, t) ==
    LET bound == get_type_definition(types, nm)
        r == add_type_definition(types, nm, t) IN
    /\ (IsSome(bound) /\ Unwrap(bound) # t) =>
          /\ ~r.ok
          /\ Unwrap(r.err).msg = "Conflicting type definition"
          /\ r.types = types
    /\ (IsSome(bound) /\ Unwrap(bound) = t) => (r.ok /\ r.types = types)
    /\ ~IsSome(bound) => (r.ok /\ get_type_definition(r.types, nm) = Some(t))
    /\ \A d \in types.type_definitions : get_type_definition(r.types, d.name) = Some(d.type_)

\* C17: on every registry the builds reach, add_type_definition(name, type)
\* fails with the duplicate-definition error and changes nothing when the name
\* is bound to a different Type, succeeds and changes nothing when it is bound
\* to the same Type, and binds the name otherwise, after which the name
\* resolves to that type; and as long as an interface lives, a name bound in
\* it stays bound to the same type (get_type keeps returning it).
C17_NameNeverRebound ==
    /\ [](\A nm \in CallNames, t \in CallTypes : AddTypeDefinitionContract(iface.types, nm, t))
    /\ [][(pc # "idle") =>
            \A d \in iface.types.type_definitions : get_type(iface', d.name) = Some(d.type_)]_vars

\* The type finder met `interface A` after `dictionary A`: the build failed
\* on the second definition and A is still bound to the record.
C17_Witness ==
    /\ pc = "failed"
    /\ IsSome(error) /\ Unwrap(error).msg = "Conflicting type definition"
    /\ \E i, j \in DOMAIN doc : i < j /\ doc[i] = RecordDefn /\ doc[j] = ObjectDefn
    /\ get_type(iface, N_A) = Some(T_Record(N_A))

-----------------------------------------------------------------------------
(* Properties of type resolution (SpecQuery). *)

\* The identifiers of a type expression.
RECURSIVE IdentsIn(_)
IdentsIn(e) ==
    CASE e.tag = "Ident" -> {e.name}
      [] e.tag \in {"Optional", "Sequence"} -> IdentsIn(e.inner)
      [] e.tag = "Map" -> IdentsIn(e.key) \cup IdentsIn(e.inner)
      [] OTHER -> {}

\* The type expressions of a document, the names they refer to, and the
\* names the document declares.
ExprsOf(ds) == UNION {Range(DefnExprs(ds[i])) : i \in DOMAIN ds}
ReferencedNames(ds) == UNION {IdentsIn(e) : e \in ExprsOf(ds)}
DeclaredNames(ds) == {ds[i].name : i \in {j \in DOMAIN ds : ds[j].kind # "Namespace"}}

\* C18: whatever the order of the declarations of a document, the build
\* succeeds when every name its type expressions refer to is declared
\* somewhere in it, before or after the reference, and fails with the
\* unknown-type error, naming an undeclared name, when one is declared
\* nowhere; and in the interface built every type built while resolving an
\* expression, the structural types inside it included, is a known type.
C18_ResolutionIgnoresOrder ==
    /\ ReferencedNames(doc) \subseteq DeclaredNames(doc) => pc = "built"
    /\ ~(ReferencedNames(doc) \subseteq DeclaredNames(doc)) =>
          /\ pc = "failed"
          /\ Unwrap(error).msg = "unknown type reference"
          /\ Unwrap(error).name \in ReferencedNames(doc) \ DeclaredNames(doc)
    /\ pc = "built" =>
          \A e \in ExprsOf(doc) : TypesBuilt(Resolved(iface, e)) \subseteq iface.types.all_known_types

\* A document built in which dictionary R refers to dictionary S, declared
\* after it, and S refers back to R.
C18_Witness ==
    /\ pc = "built"
    /\ \E i, j \in DOMAIN doc : i < j /\ doc[i] = RecordR /\ doc[j] = RecordS
    /\ [tag |-> "Optional", inner |-> T_Record(N_S)] \in iface.types.all_known_types

-----------------------------------------------------------------------------
(* Properties of the declarations of a built interface (SpecQuery). *)

\* The primary constructor of o, if any, followed by its alternates.
PrimaryAndAlternates(o) == primary_constructor(o) \o alternate_constructors(o)

-----------------------------------------------------------------------------
(* Properties of typed documents (SpecTyped). *)

\* The low-level types, and those of fixed width.
FixedWidthFFITypes == {"UInt8", "Int8", "UInt16", "Int16", "UInt32", "Int32", "UInt64", "Int64",
                       "Float32", "Float64"}
FFITypes == FixedWidthFFITypes \cup {"RustArcPtr", "RustBuffer", "ForeignBytes", "ForeignCallback"}

\* The low-level type f is what the mapping promises for the Type t.
MappedAs(t, f) ==
    /\ f \in FFITypes
    /\ t.tag \in FixedWidthFFITypes => f = t.tag
    /\ t.tag = "Boolean" => f \in FixedWidthFFITypes
    /\ t.tag \in {"String", "Bytes", "Optional", "Sequence", "Map", "Record", "Enum", "Error"} =>
          f = "RustBuffer"
    /\ t.tag = "Object" => f = "RustArcPtr"
    /\ t.tag = "CallbackInterface" => f = "ForeignCallback"

\* The derived descriptor ffi of a callable whose own arguments are args
\* (after `skip` implicit ones) and whose return type is ret maps each of them.
DescriptorMapped(args, ret, ffi, skip) ==
    /\ Len(ffi.arguments) = Len(args) + skip
    /\ \A i \in DOMAIN args : MappedAs(args[i].type_, ffi.arguments[i + skip].type_)
    /\ IsSome(ret) => (IsSome(ffi.return_type) /\ MappedAs(Unwrap(ret), Unwrap(ffi.return_type)))

\* C21: in a built interface every argument and return type of every
\* function and method, whatever Type it is, has a low-level type in the
\* derived descriptor: a numeric scalar its own fixed-width type, a boolean a
\* fixed-width type, string, bytes, Optional, Sequence, Map, Record,
\* Enum and Error the byte buffer, Object the opaque handle, CallbackInterface
\* the function-pointer slot, External and Custom some low-level type.
C21_TypeMappingTotal ==
    pc = "built" =>
        /\ \A i \in DOMAIN iface.functions :
              DescriptorMapped(iface.functions[i].arguments, iface.functions[i].return_type,
                               iface.functions[i].ffi_func, 0)
        /\ \A i \in DOMAIN iface.objects : \A j \in DOMAIN iface.objects[i].methods :
              LET m == iface.objects[i].methods[j] IN
              /\ DescriptorMapped(m.arguments, m.return_type, m.ffi_func, 1)
              /\ m.ffi_func.arguments[1].type_ = "RustArcPtr"

\* A built interface whose function takes a Custom type.
C21_Witness ==
    /\ pc = "built"
    /\ \E i \in DOMAIN iface.functions :
          /\ iface.functions[i].arguments # <<>>
          /\ iface.functions[i].arguments[1].type_.tag = "Custom"
          /\ iface.functions[i].ffi_func.arguments # <<>>

\* The attribute lists the documents carry, and those of the typedefs.
RawAttributeLists ==
    {l \in FunctionAttributeLists \cup MethodAttributeLists \cup ConstructorAttributeLists
            \cup {TypedefExternal.attributes, TypedefCustom.attributes, TypedefByRef.attributes} :
        IsSome(l)}

\* The raw attribute is one the declaration kind recognises.
Recognised(kind, raw) ==
    /\ IsSome(Attribute_try_from(raw))
    /\ Unwrap(Attribute_try_from(raw)).tag \in SupportedAttributes(kind)

\* The attribute lists of a definition and of its members, each with its kind.
DefinitionAttributes(d) ==
    CASE d.kind = "Namespace" ->
            [i \in DOMAIN d.functions |-> [kind |-> "Function", value |-> d.functions[i].attributes]]
      [] d.kind = "Typedef" -> <<[kind |-> "Typedef", value |-> d.attributes]>>
      [] OTHER -> MemberAttributes(d)

\* The attribute set is the all-default one: every accessor answers no.
AllDefault(attributes) ==
    /\ attributes = <<>>
    /\ ~by_ref(attributes)
    /\ get_throws_err(attributes) = None
    /\ ~contains_error_attr(attributes)
    /\ ~contains_enum_attr(attributes)
    /\ ~get_self_by_arc(attributes)
    /\ ~is_custom(attributes)

\* C22: for every declaration kind, an absent attribute list parses to the
\* all-default attribute set and a list holding an attribute the kind does not
\* recognise does not parse; and from_webidl returns an interface only for a
\* document all of whose attributes are recognised for the declaration that
\* carries them, the functions and methods declared without a list having
\* the all-default set.
C22_AttributeParsingClosed ==
    /\ \A kind \in AttributeKinds :
          /\ Attributes_try_from(kind, None).ok
          /\ AllDefault(Attributes_try_from(kind, None).attrs)
          /\ \A l \in RawAttributeLists :
                (\E i \in DOMAIN Unwrap(l) : ~Recognised(kind, Unwrap(l)[i]))
                    => ~Attributes_try_from(kind, l).ok
    /\ pc = "built" =>
          /\ \A i \in DOMAIN doc : \A j \in DOMAIN DefinitionAttributes(doc[i]) :
                LET a == DefinitionAttributes(doc[i])[j] IN
                IsSome(a.value) => \A k \in DOMAIN Unwrap(a.value) : Recognised(a.kind, Unwrap(a.value)[k])
          /\ \A i \in DOMAIN iface.functions :
                doc[1].functions[i].attributes = None => AllDefault(iface.functions[i].attributes)
          /\ \A i \in DOMAIN iface.objects : \A j \in DOMAIN iface.objects[i].methods :
                doc[2].methods[j].attributes = None
                    => AllDefault(iface.objects[i].methods[j].attributes)

\* The build failed on a function whose list holds an attribute that is
\* recognised for functions and then one that is not.
C22_Witness ==
    /\ pc = "failed"
    /\ IsSome(error) /\ Unwrap(error).msg = "unsupported attribute"
    /\ doc[1].functions # <<>>
    /\ doc[1].functions[1].attributes = Some(<<RawAttr("Throws", Some(N_X)), RawAttr("Foo", None)>>)

\* The type expression e is, or holds, an expression of the kind `tag`.
RECURSIVE Mentions(_, _)
Mentions(e, tag) ==
    \/ e.tag = tag
    \/ e.tag \in {"Optional", "Sequence"} /\ Mentions(e.inner, tag)
    \/ e.tag = "Map" /\ (Mentions(e.key, tag) \/ Mentions(e.inner, tag))

\* The type expressions of the definitions the detail pass has dealt with.
ProcessedExprs ==
    LET done == SubSeq(doc, 1, next_defn - 1) IN
    UNION {Range(DefnExprs(done[i])) : i \in DOMAIN done}
    \cup UNION {UNION {Range(CallableExprs(done[i].functions[j])) : j \in DOMAIN done[i].functions} :
                   i \in {k \in DOMAIN done : done[k].kind = "Namespace"}}

\* The registrations of the unit tests: a name and an Optional, Sequence or Map type.
N_TestOptional == <<"T","e","s","t","O","p","t","i","o","n","a","l">>
TestRegistrations ==
    {[name |-> N_TestOptional, type_ |-> [tag |-> "Optional", inner |-> T_String]],
     [name |-> N_TestOptional, type_ |-> [tag |-> "Sequence", inner |-> [tag |-> "UInt64"]]],
     [name |-> N_TestOptional,
      type_ |-> [tag |-> "Map", key |-> T_String, inner |-> [tag |-> "Boolean"]]]}

\* The answer of contains_optional_types / _sequence_types / _map_types.
ContainsTypes(ci, tag) ==
    CASE tag = "Optional" -> contains_optional_types(ci)
      [] tag = "Sequence" -> contains_sequence_types(ci)
      [] tag = "Map" -> contains_map_types(ci)

\* C23: contains_optional_types (contains_sequence_types, contains_map_types)
\* is false for the empty interface; while from_webidl builds an interface
\* it is true exactly when a definition dealt with so far mentions an
\* Optional (Sequence, Map) type; and it is true after add_type_definition has
\* registered such a type under a fresh name.
C23_ContainsCompositeTypes ==
    \A tag \in {"Optional", "Sequence", "Map"} :
        /\ ~ContainsTypes(DefaultInterface, tag)
        /\ pc \in {"read", "detail", "derive", "built"} =>
              (ContainsTypes(iface, tag) <=> \E e \in ProcessedExprs : Mentions(e, tag))
        /\ \A reg \in TestRegistrations :
              LET r == add_type_definition(iface.types, reg.name, reg.type_) IN
              /\ r.ok
              /\ reg.type_.tag = tag => ContainsTypes([iface EXCEPT !.types = r.types], tag)

\* The detail pass has just dealt with a function that takes a sequence:
\* the interface knows a Sequence type and no Optional or Map type.
C23_Witness ==
    /\ pc = "detail"
    /\ next_defn = 2
    /\ contains_sequence_types(iface)
    /\ ~contains_optional_types(iface)
    /\ ~contains_map_types(iface)

\* The callable with its derived descriptor put back to FFIFunction::default().
WithoutFfiFunc(c) == [c EXCEPT !.ffi_func = DefaultFFIFunction]

\* The interface with every derived descriptor (Function.ffi_func,
\* Constructor.ffi_func and Method.ffi_func of objects, Object.ffi_func_free,
\* CallbackInterface.ffi_init_callback) put back to FFIFunction::default().
WithoutDerived(ci) ==
    [ci EXCEPT
        !.functions = [i \in DOMAIN ci.functions |-> WithoutFfiFunc(ci.functions[i])],
        !.objects =
            [i \in DOMAIN ci.objects |->
                [ci.objects[i] EXCEPT
                    !.ffi_func_free = DefaultFFIFunction,
                    !.constructors = [j \in DOMAIN ci.objects[i].constructors |->
                                         WithoutFfiFunc(ci.objects[i].constructors[j])],
                    !.methods = [j \in DOMAIN ci.objects[i].methods |->
                                    WithoutFfiFunc(ci.objects[i].methods[j])]]],
        !.callback_interfaces =
            [i \in DOMAIN ci.callback_interfaces |->
                [ci.callback_interfaces[i] EXCEPT !.ffi_init_callback = DefaultFFIFunction]]]

\* C24: the step that runs derive_ffi_funcs changes the derived FFI
\* descriptors only: apart from Function.ffi_func, Constructor.ffi_func,
\* Method.ffi_func, Object.ffi_func_free and
\* CallbackInterface.ffi_init_callback the interface after the step is the
\* interface before it (namespace, type universe, and the name, members,
\* member order, types and attributes of every declaration).
C24_DeriveWritesOnlyDescriptors ==
    [][(pc = "derive") =>
          /\ WithoutDerived(iface') = WithoutDerived(iface)
          /\ iface'.namespace = iface.namespace
          /\ iface'.types = iface.types]_vars

\* derive_ffi_funcs has run on an interface with an object whose method
\* declares two arguments and carries attributes, and which has a constructor.
C24_Witness ==
    /\ pc = "built"
    /\ iface.objects # <<>>
    /\ iface.objects[1].methods # <<>>
    /\ Len(iface.objects[1].methods[1].arguments) = 2
    /\ iface.objects[1].methods[1].attributes # <<>>
    /\ iface.objects[1].constructors # <<>>
    /\ iface.objects[1].methods[1].ffi_func # DefaultFFIFunction

\* C25: derive_ffi_funcs returns success on every interface that
\* check_consistency accepts, at whatever point of the build, and no build
\* ends with the internal mapping error.
C25_DeriveNeverFails ==
    /\ check_consistency(iface) = None => derive_ffi_funcs_result(iface).ok
    /\ pc = "failed" => Unwrap(error).msg # "internal mapping error"

\* derive_ffi_funcs has returned success for an interface with an object
\* and a function that takes a Custom and returns nothing.
C25_Witness ==
    /\ pc = "built"
    /\ error = None
    /\ iface.objects # <<>>
    /\ \E i \in DOMAIN iface.functions :
          /\ iface.functions[i].arguments # <<>>
          /\ iface.functions[i].arguments[1].type_.tag = "Custom"
          /\ iface.functions[i].return_type = None

\* The declaration, in the document, of the j-th method of the i-th object
\* of the interface.
MethodDecl(i, j) ==
    doc[CHOOSE k \in DOMAIN doc :
            doc[k].kind = "Object" /\ doc[k].name = iface.objects[i].name].methods[j]

\* The method is declared with [Self=ByArc].
DeclaredByArc(decl) ==
    /\ IsSome(decl.attributes)
    /\ \E k \in DOMAIN Unwrap(decl.attributes) :
          Unwrap(decl.attributes)[k] = RawAttr("Self", Some(S_ByArc))

\* C26: for every method of every object of an interface that passed
\* check_consistency, full_arguments() is the receiver (named "ptr", of type
\* Object(object name), by_ref exactly when the method is not declared
\* [Self=ByArc], not optional, no default) followed by the declared arguments
\* in declared order; arguments() is the declared arguments, without the
\* receiver; and once derived, the FFI function has one argument more than
\* declared, the receiver first as an opaque handle, then the declared
\* arguments by name and in order.  The methods of a callback interface, which
\* derive_ffi_funcs leaves alone, have the same full_arguments(), and
\* Method::derive_ffi_func would give them the same shape.
C26_MethodFullArguments ==
    pc \in {"derive", "built"} =>
        /\ \A i \in DOMAIN iface.objects : \A j \in DOMAIN iface.objects[i].methods :
            LET m == iface.objects[i].methods[j]
                decl == MethodDecl(i, j)
                full == Method_full_arguments(m)
                n == Len(decl.arguments)
            IN  /\ Len(full) = n + 1
                /\ full[1] = [name |-> S_ptr, type_ |-> T_Object(iface.objects[i].name),
                              by_ref |-> ~DeclaredByArc(decl), optional |-> FALSE,
                              default |-> None]
                /\ \A k \in 1..n :
                      /\ full[k + 1].name = decl.arguments[k].name
                      /\ full[k + 1].type_ = Resolved(iface, decl.arguments[k].type_)
                      /\ full[k + 1] = Method_arguments(m)[k]
                /\ Len(Method_arguments(m)) = n
                /\ \A k \in 1..n : Method_arguments(m)[k].name = decl.arguments[k].name
                /\ pc = "built" =>
                      /\ Len(m.ffi_func.arguments) = n + 1
                      /\ m.ffi_func.arguments[1] = [name |-> S_ptr, type_ |-> "RustArcPtr"]
                      /\ \A k \in 1..n :
                            m.ffi_func.arguments[k + 1] =
                                [name |-> decl.arguments[k].name,
                                 type_ |-> FFITypeOf(Resolved(iface, decl.arguments[k].type_))]
        /\ \A i \in DOMAIN iface.callback_interfaces :
              \A j \in DOMAIN iface.callback_interfaces[i].methods :
                LET m == iface.callback_interfaces[i].methods[j]
                    full == Method_full_arguments(m)
                    ffi == Method_derive_ffi_func(m, iface.namespace, m.object_name).ffi_func
                IN  /\ full = <<[name |-> S_ptr, type_ |-> T_Object(m.object_name),
                                 by_ref |-> TRUE, optional |-> FALSE, default |-> None]>>
                              \o Method_arguments(m)
                    /\ Names(ffi.arguments) = <<S_ptr>> \o Names(Method_arguments(m))

\* A built interface with a [Self=ByArc] method of two declared arguments
\* of different types.
C26_Witness ==
    /\ pc = "built"
    /\ iface.objects # <<>>
    /\ iface.objects[1].methods # <<>>
    /\ get_self_by_arc(iface.objects[1].methods[1].attributes)
    /\ Len(iface.objects[1].methods[1].arguments) = 2
    /\ iface.objects[1].methods[1].arguments[1].type_
          # iface.objects[1].methods[1].arguments[2].type_
    /\ Len(iface.objects[1].methods[1].ffi_func.arguments) = 3

\* C27: in every built interface (from_webidl, parse_iface, or add_to_ci
\* once or more often on the interface a build returned) the name of every
\* function of iter_user_ffi_function_definitions() starts with
\* ffi_namespace() of that interface and an underscore, or with "ffi_" and the
\* same; none starts with the placeholder "__uniffi_", and none starts with
\* the FFI namespace the interface had before the last add_to_ci when that
\* differs.
C27_SymbolsCarryFinalNamespace ==
    pc = "built" =>
        LET ns == ffi_namespace(iface)
            before == ffi_namespace(snapshot)
            names == Names(iter_user_ffi_function_definitions(iface))
        IN  \A i \in DOMAIN names :
                /\ \/ StartsWith(names[i], Under(ns, <<>>))
                   \/ StartsWith(names[i], Under(Under(S_ffi, ns), <<>>))
                /\ ~StartsWith(names[i], S_uniffi_placeholder)
                /\ before # ns =>
                      /\ ~StartsWith(names[i], Under(before, <<>>))
                      /\ ~StartsWith(names[i], Under(Under(S_ffi, before), <<>>))

\* add_to_ci has succeeded on an interface that had a function and has
\* added another: the FFI namespace is no longer what it was.
C27_Witness ==
    /\ pc = "built"
    /\ snapshot.functions # <<>>
    /\ Len(iface.functions) > Len(snapshot.functions)
    /\ ffi_namespace(snapshot) # ffi_namespace(iface)

\* The functions of the interface and the constructors and methods of its objects.
Callables(ci) ==
    Range(ci.functions)
    \cup UNION {Range(ci.objects[i].constructors) \cup Range(ci.objects[i].methods) :
                   i \in DOMAIN ci.objects}

\* C28: in a built interface, the name throws() gives for a function,
\* constructor or method is the name of an Error declaration of the
\* interface, and throws_type() is the type registered under that name.
C28_ThrowsNamesRegisteredError ==
    pc = "built" =>
        \A c \in Callables(iface) :
            IsSome(throws(c)) =>
                /\ IsSome(get_error_definition(iface, Unwrap(throws(c))))
                /\ throws_type(c) = get_type_definition(iface.types, Unwrap(throws(c)))

-----------------------------------------------------------------------------
(* Properties of the export macro and the metadata it writes (Spec). *)

\* C29: scaffolding and bindings agree on the symbol of an exported
\* function: when parse_iface is about to read the metadata directory the
\* export macro wrote, whatever the order of reading, the interface it
\* builds has for every exported function a function of that name whose
\* derived ffi_func().name is the name of the extern "C" function the macro
\* emitted for it.
C29_ScaffoldingAndBindingsAgree ==
    (pc = "pi_read" /\ iface = NewInterface(N_n)) =>
        \A o \in ReadDirOrders(dir) :
            parse_iface(o).ok =>
                \A file \in dir :
                    LET f == FindByName(parse_iface(o).ci.functions, file.content.name) IN
                    /\ IsSome(f)
                    /\ Unwrap(f).ffi_func.name =
                           gen_fn_scaffolding(file.content.module, file.content.name)

\* C30: the metadata the export macro writes round-trips through
\* parse_iface: when parse_iface is about to read the directory holding the
\* files write_metadata wrote for a set of exported functions and structs,
\* then whatever the order of reading it returns an interface, and that
\* interface has exactly one function of the name of each exported function.
C30_MetadataRoundTrips ==
    (pc = "pi_read" /\ iface = NewInterface(N_n)) =>
        \A items \in SUBSET ExportedItems :
            dir = {write_metadata(item) : item \in items} =>
                \A o \in ReadDirOrders(dir) :
                    /\ parse_iface(o).ok
                    /\ \A item \in items :
                          item.kind = "Fn" =>
                              Cardinality({k \in DOMAIN parse_iface(o).ci.functions :
                                  parse_iface(o).ci.functions[k].name = item.meta.name}) = 1

=============================================================================
